---- MODULE Spec2Model ----
(***************************************************************************)
(* rdii-networkd: the network-configuration generator of rdi-installer.    *)
(*                                                                         *)
(* C strings are sequences of one-character strings.  The NULL pointer is  *)
(* the one-element sequence NULL, whose element is no character.  Pieces   *)
(* of an output line that come from a format string are kept as one        *)
(* element (<<"Name=">> \o interface).                                     *)
(***************************************************************************)
EXTENDS Integers, Sequences, FiniteSets, TLC

(* ----------------------------------------------------------------------- *)
(* Program constants                                                       *)
(* ----------------------------------------------------------------------- *)
MAX_INTERFACES == 10
VLAN_CAPACITY == 10
ENOENT == 2
ENOMEM == 12
EINVAL == 22
R_IGNORED == 255

(* ----------------------------------------------------------------------- *)
(* Bounds of the model                                                     *)
(* ----------------------------------------------------------------------- *)
MaxTokens == 3

(* how often the generator is run again on the same output directory *)
MaxReruns == 1

(* ----------------------------------------------------------------------- *)
(* libc / basics.h helpers                                                 *)
(* ----------------------------------------------------------------------- *)
NULL == <<"NULL">>

isempty(s) == s = NULL \/ s = <<>>

streq(a, b) == a = b

startswith(s, p) == Len(s) >= Len(p) /\ SubSeq(s, 1, Len(p)) = p

Digits == {"0", "1", "2", "3", "4", "5", "6", "7", "8", "9"}

HexDigits == Digits \cup {"a", "b", "c", "d", "e", "f", "A", "B", "C", "D", "E", "F"}

DigitVal(c) == CASE c = "0" -> 0 [] c = "1" -> 1 [] c = "2" -> 2 [] c = "3" -> 3
                 [] c = "4" -> 4 [] c = "5" -> 5 [] c = "6" -> 6 [] c = "7" -> 7
                 [] c = "8" -> 8 [] c = "9" -> 9

DigitChar(d) == CASE d = 0 -> "0" [] d = 1 -> "1" [] d = 2 -> "2" [] d = 3 -> "3"
                  [] d = 4 -> "4" [] d = 5 -> "5" [] d = 6 -> "6" [] d = 7 -> "7"
                  [] d = 8 -> "8" [] d = 9 -> "9"

RECURSIVE DecVal(_)
DecVal(s) == IF s = <<>> THEN 0
             ELSE 10 * DecVal(SubSeq(s, 1, Len(s) - 1)) + DigitVal(s[Len(s)])

AllDigits(s) == \A i \in 1..Len(s) : s[i] \in Digits

(* printf("%d") of a non-negative int *)
RECURSIVE FmtD(_)
FmtD(n) == IF n < 10 THEN <<DigitChar(n)>>
           ELSE FmtD(n \div 10) \o <<DigitChar(n % 10)>>

(* printf("%02d") / printf("%04d") of a non-negative int *)
FmtD0(n, w) == LET d == FmtD(n)
               IN  [i \in 1..(IF Len(d) < w THEN w - Len(d) ELSE 0) |-> "0"] \o d

(* index of the first character of s that is in set d, 0 if there is none *)
RECURSIVE FirstIn(_, _, _)
FirstIn(s, d, i) == IF i > Len(s) THEN 0
                    ELSE IF s[i] \in d THEN i
                    ELSE FirstIn(s, d, i + 1)

(* index of the last character of s that is c, 0 if there is none; strrchr *)
RECURSIVE LastOf(_, _, _)
LastOf(s, c, i) == IF i < 1 THEN 0
                   ELSE IF s[i] = c THEN i
                   ELSE LastOf(s, c, i - 1)

strchr(s, c) == FirstIn(s, {c}, 1) # 0

(* strsep(&str, delim): the token and the new value of str *)
strsep(str, delim) ==
  IF str = NULL THEN [tok |-> NULL, rest |-> NULL]
  ELSE LET i == FirstIn(str, delim, 1)
       IN  IF i = 0 THEN [tok |-> str, rest |-> NULL]
           ELSE [tok |-> SubSeq(str, 1, i - 1), rest |-> SubSeq(str, i + 1, Len(str))]

(* the pieces of s between the occurrences of character c *)
RECURSIVE Split(_, _)
Split(s, c) == LET i == FirstIn(s, {c}, 1)
               IN  IF i = 0 THEN <<s>>
                   ELSE <<SubSeq(s, 1, i - 1)>> \o Split(SubSeq(s, i + 1, Len(s)), c)

(* strtol(s, &ep, 10) followed by the test "s == ep || *ep != 0":          *)
(* the text is an optionally signed, non-empty run of decimal digits       *)
StrtolWhole(s) ==
  LET body == IF s # <<>> /\ s[1] \in {"-", "+"} THEN Tail(s) ELSE s
  IN  body # <<>> /\ AllDigits(body)

StrtolVal(s) ==
  IF s[1] = "-" THEN 0 - DecVal(Tail(s))
  ELSE IF s[1] = "+" THEN DecVal(Tail(s))
  ELSE DecVal(s)

(* inet_pton(AF_INET, s) == 1 *)
IsOctet(p) == /\ Len(p) \in 1..3
              /\ AllDigits(p)
              /\ (Len(p) > 1 => p[1] # "0")
              /\ DecVal(p) <= 255

IsIPv4(s) == LET parts == Split(s, ".")
             IN  Len(parts) = 4 /\ \A i \in 1..4 : IsOctet(parts[i])

(* inet_pton(AF_INET6, s) == 1, for addresses without an embedded IPv4 part *)
IsIPv6(s) ==
  LET parts == Split(s, ":")
      n == Len(parts)
      gaps == {i \in 1..(Len(s) - 1) : s[i] = ":" /\ s[i + 1] = ":"}
      groups == {i \in 1..n : parts[i] # <<>>}
  IN  /\ Len(s) >= 2
      /\ \A i \in 1..Len(s) : s[i] \in HexDigits \cup {":"}
      /\ Cardinality(gaps) <= 1
      /\ (s[1] = ":" => s[2] = ":")
      /\ (s[Len(s)] = ":" => s[Len(s) - 1] = ":")
      /\ \A i \in groups : Len(parts[i]) <= 4
      /\ IF gaps = {} THEN Cardinality(groups) = 8 ELSE Cardinality(groups) <= 7

is_ip_addr(token) == IsIPv4(token) \/ IsIPv6(token)

(* ----------------------------------------------------------------------- *)
(* ip_t and the sub-parsers of ip.c                                        *)
(* ----------------------------------------------------------------------- *)
EmptyCfg == [client_ip |-> NULL, peer_ip |-> NULL, gateway |-> NULL,
             gateway1 |-> NULL, destination |-> NULL, netmask |-> 0,
             hostname |-> NULL, interface |-> NULL, autoconf |-> NULL,
             use_dns |-> 0, dns1 |-> NULL, dns2 |-> NULL, ntp |-> NULL,
             mtu |-> NULL, macaddr |-> NULL, domains |-> NULL,
             vlan1 |-> 0, vlan2 |-> 0, vlan3 |-> 0]

(* What a sub-parser hands back: its return value r, the record it filled, *)
(* whether it went through return_syntax_error, whether it dereferenced a  *)
(* NULL or uninitialised pointer, and the VLAN table it leaves.            *)
Ret(r, cfg, vl) == [r |-> r, cfg |-> cfg, reported |-> FALSE, fault |-> FALSE, vlans |-> vl]

Fault(cfg, vl) == [r |-> 0, cfg |-> cfg, reported |-> FALSE, fault |-> TRUE, vlans |-> vl]

return_syntax_error(ret, cfg, vl) == [r |-> ret, cfg |-> cfg, reported |-> TRUE, fault |-> FALSE, vlans |-> vl]

(* netmask_to_cidr.  The uint32_t mask is kept as its 32 bits, most        *)
(* significant first; mask <<= 1 drops the first bit and appends a zero.   *)
Bits8(n) == [i \in 1..8 |-> (n \div (2 ^ (8 - i))) % 2]

(* the loop without its test "if (mask != 0) return -EINVAL" *)
RECURSIVE CidrLoopNoCheck(_, _, _)
CidrLoopNoCheck(mask, bits, i) ==
  IF i = 32 THEN bits
  ELSE IF mask[1] = 1 THEN CidrLoopNoCheck(Tail(mask) \o <<0>>, bits + 1, i + 1)
  ELSE bits

RECURSIVE CidrLoop(_, _, _)
CidrLoop(mask, bits, i) ==
  IF i = 32 THEN bits
  ELSE IF mask[1] = 1 THEN CidrLoop(Tail(mask) \o <<0>>, bits + 1, i + 1)
  ELSE IF \E k \in 1..32 : mask[k] = 1 THEN -1
  ELSE bits

netmask_to_cidr(netmask_str) ==
  IF ~IsIPv4(netmask_str) THEN [r |-> 0 - EINVAL, cidr |-> 0]
  ELSE LET p == Split(netmask_str, ".")
           mask == Bits8(DecVal(p[1])) \o Bits8(DecVal(p[2])) \o Bits8(DecVal(p[3])) \o Bits8(DecVal(p[4]))
           bits == CidrLoop(mask, 0, 0)
       IN  IF bits < 0 THEN [r |-> 0 - EINVAL, cidr |-> 0]
           ELSE [r |-> 0, cidr |-> bits]

(* extract_ip_addr: set tells whether *ret was assigned *)
extract_ip_addr(str, required) ==
  IF str = NULL THEN [r |-> 0, set |-> FALSE, tok |-> NULL, rest |-> NULL, fault |-> TRUE]
  ELSE IF str # <<>> /\ str[1] = "["
  THEN LET sp == strsep(str, {"]"})
       IN  IF isempty(sp.tok) \/ isempty(sp.rest)
           THEN [r |-> 0 - EINVAL, set |-> FALSE, tok |-> NULL, rest |-> sp.rest, fault |-> FALSE]
           ELSE IF required /\ isempty(Tail(sp.tok))
           THEN [r |-> 0 - EINVAL, set |-> FALSE, tok |-> NULL, rest |-> Tail(sp.rest), fault |-> FALSE]
           ELSE [r |-> 0, set |-> TRUE, tok |-> Tail(sp.tok), rest |-> Tail(sp.rest), fault |-> FALSE]
  ELSE LET sp == strsep(str, {":"})
       IN  IF ~isempty(sp.tok) /\ ~is_ip_addr(sp.tok)
           THEN [r |-> 0 - EINVAL, set |-> TRUE, tok |-> sp.tok, rest |-> sp.rest, fault |-> FALSE]
           ELSE IF required /\ isempty(sp.tok)
           THEN [r |-> 0 - EINVAL, set |-> FALSE, tok |-> NULL, rest |-> sp.rest, fault |-> FALSE]
           ELSE [r |-> 0, set |-> TRUE, tok |-> sp.tok, rest |-> sp.rest, fault |-> FALSE]

(* extract_word of ip.c.  over: the cursor was moved past the terminating  *)
(* NUL of the argument (a ']' that is the last character).                 *)
extract_word(str, required) ==
  IF str = NULL THEN [r |-> 0, tok |-> NULL, rest |-> NULL, fault |-> TRUE, over |-> FALSE]
  ELSE IF str # <<>> /\ str[1] = "["
  THEN IF ~strchr(str, "]")
       THEN [r |-> 0 - EINVAL, tok |-> NULL, rest |-> str, fault |-> FALSE, over |-> FALSE]
       ELSE LET sp == strsep(str, {"]"})
                tk == sp.tok \o <<"]">>
            IN  IF sp.rest = <<>>
                THEN [r |-> 0, tok |-> tk, rest |-> <<>>, fault |-> FALSE, over |-> TRUE]
                ELSE [r |-> 0, tok |-> tk, rest |-> Tail(sp.rest), fault |-> FALSE, over |-> FALSE]
  ELSE LET sp == strsep(str, {":"})
       IN  IF isempty(sp.tok) /\ required
           THEN [r |-> 0 - EINVAL, tok |-> NULL, rest |-> sp.rest, fault |-> FALSE, over |-> FALSE]
           ELSE [r |-> 0, tok |-> sp.tok, rest |-> sp.rest, fault |-> FALSE, over |-> FALSE]

(* get_vlan_id: the id is the run of digits that ends the name; vl is the  *)
(* VLAN table, a sequence of [id, name].                                   *)
is_duplicate(list, new_id) == \E i \in 1..Len(list) : list[i].id = new_id

(* position of the last non-digit of name after its first character, or 0  *)
RECURSIVE LastNonDigit(_, _)
LastNonDigit(name, i) == IF i < 2 THEN 0
                         ELSE IF name[i] \notin Digits THEN i
                         ELSE LastNonDigit(name, i - 1)

VlanTableFull(vl) == Len(vl) + 1 = VLAN_CAPACITY

get_vlan_id(vlan_name, vl) ==
  LET p == LastNonDigit(vlan_name, Len(vlan_name))
      num == SubSeq(vlan_name, p + 1, Len(vlan_name))
  IN  IF p = 0 THEN [r |-> 0 - EINVAL, id |-> 0, vlans |-> vl]
      ELSE IF num = <<>> \/ DecVal(num) < 1 \/ DecVal(num) > 4095
      THEN [r |-> 0 - EINVAL, id |-> 0, vlans |-> vl]
      ELSE IF is_duplicate(vl, DecVal(num))
      THEN [r |-> 0, id |-> DecVal(num), vlans |-> vl]
      ELSE IF VlanTableFull(vl)
      THEN [r |-> 0 - ENOMEM, id |-> 0, vlans |-> vl]
      ELSE [r |-> 0, id |-> DecVal(num),
            vlans |-> Append(vl, [id |-> DecVal(num), name |-> vlan_name])]

(* parse_ip_arg, long form, from its last field back to its second one     *)
CountColons(s) == Cardinality({i \in 1..Len(s) : s[i] = ":"})

IpTail(cfg, arg, vl) ==
  IF isempty(arg) THEN Ret(0, cfg, vl)
  ELSE LET w == extract_word(arg, FALSE)
       IN  IF w.fault \/ w.over THEN Fault(cfg, vl)
           ELSE IF w.r < 0 THEN return_syntax_error(w.r, cfg, vl)
           ELSE IF is_ip_addr(w.tok)
           THEN LET c1 == [cfg EXCEPT !.dns1 = w.tok]
                IN  IF isempty(w.rest) THEN Ret(0, c1, vl)
                    ELSE LET e2 == extract_ip_addr(w.rest, FALSE)
                             c2 == [c1 EXCEPT !.dns2 = e2.tok]
                         IN  IF e2.r < 0 THEN return_syntax_error(e2.r, c1, vl)
                             ELSE IF isempty(e2.rest) THEN Ret(0, c2, vl)
                             ELSE LET e3 == extract_ip_addr(e2.rest, FALSE)
                                      c3 == [c2 EXCEPT !.ntp = e3.tok]
                                  IN  IF e3.r < 0 THEN return_syntax_error(e3.r, c2, vl)
                                      ELSE IF ~isempty(e3.rest)
                                      THEN return_syntax_error(0 - EINVAL, c3, vl)
                                      ELSE Ret(0, c3, vl)
           ELSE IF ~isempty(w.tok)
           THEN Ret(0, [cfg EXCEPT !.mtu = w.tok, !.macaddr = w.rest], vl)
           ELSE IF ~isempty(w.rest)
           THEN IF CountColons(w.rest) = 5
                THEN Ret(0, [cfg EXCEPT !.macaddr = w.rest], vl)
                ELSE LET w2 == extract_word(w.rest, FALSE)
                         c2 == [cfg EXCEPT !.dns2 = w2.tok]
                     IN  IF w2.fault \/ w2.over THEN Fault(cfg, vl)
                         ELSE IF w2.r < 0 THEN return_syntax_error(w2.r, cfg, vl)
                         ELSE IF isempty(w2.rest) THEN Ret(0, c2, vl)
                         ELSE IF is_ip_addr(w2.rest)
                         THEN Ret(0, [c2 EXCEPT !.ntp = w2.rest], vl)
                         ELSE return_syntax_error(w2.r, c2, vl)
           ELSE Ret(0, cfg, vl)

IpAutoconf(cfg, arg, vl) ==
  LET w == extract_word(arg, FALSE)
  IN  IF w.fault \/ w.over THEN Fault(cfg, vl)
      ELSE IF w.r < 0 THEN return_syntax_error(w.r, cfg, vl)
      ELSE IpTail([cfg EXCEPT !.autoconf = w.tok], w.rest, vl)

IpInterface(cfg, arg, vl) ==
  LET w == extract_word(arg, TRUE)
  IN  IF w.fault \/ w.over THEN Fault(cfg, vl)
      ELSE IF w.r < 0 THEN return_syntax_error(w.r, cfg, vl)
      ELSE IpAutoconf([cfg EXCEPT !.interface = w.tok], w.rest, vl)

IpHostname(cfg, arg, vl) ==
  LET w == extract_word(arg, FALSE)
  IN  IF w.fault \/ w.over THEN Fault(cfg, vl)
      ELSE IF w.r < 0 THEN return_syntax_error(w.r, cfg, vl)
      ELSE IpInterface([cfg EXCEPT !.hostname = w.tok], w.rest, vl)

IpNetmask(cfg, arg, vl) ==
  LET w == extract_word(arg, TRUE)
  IN  IF w.fault \/ w.over THEN Fault(cfg, vl)
      ELSE IF w.r < 0 THEN return_syntax_error(w.r, cfg, vl)
      ELSE LET dotted == strchr(w.tok, ".")
               n == netmask_to_cidr(w.tok)
           IN  IF dotted /\ n.r < 0 THEN return_syntax_error(n.r, cfg, vl)
               ELSE IF ~dotted /\ (~StrtolWhole(w.tok) \/ StrtolVal(w.tok) < 0
                                                       \/ StrtolVal(w.tok) > 128)
               THEN Ret(0 - EINVAL, cfg, vl)
               ELSE IpHostname([cfg EXCEPT !.netmask = IF dotted THEN n.cidr
                                                        ELSE StrtolVal(w.tok)],
                               w.rest, vl)

IpGateway(cfg, arg, vl) ==
  LET e == extract_ip_addr(arg, TRUE)
  IN  IF e.fault THEN Fault(cfg, vl)
      ELSE IF e.r < 0 THEN return_syntax_error(e.r, cfg, vl)
      ELSE IpNetmask([cfg EXCEPT !.gateway = e.tok], e.rest, vl)

IpPeer(cfg, arg, vl) ==
  LET e == extract_ip_addr(arg, FALSE)
  IN  IF e.fault THEN Fault(cfg, vl)
      ELSE IF e.r < 0 THEN return_syntax_error(e.r, cfg, vl)
      ELSE IpGateway([cfg EXCEPT !.peer_ip = e.tok], e.rest, vl)

(* parse_ip_arg, short form: <interface>:<autoconf>[:[<mtu>][:<macaddr>]]  *)
IpShort(iface, arg, vl) ==
  LET a == strsep(arg, {":"})
      c1 == [EmptyCfg EXCEPT !.interface = iface, !.autoconf = a.tok]
      m == strsep(a.rest, {":"})
      c2 == [c1 EXCEPT !.mtu = m.tok]
  IN  IF isempty(a.rest) THEN Ret(0, c1, vl)
      ELSE IF isempty(m.rest) THEN Ret(0, c2, vl)
      ELSE IF m.rest[Len(m.rest)] = ":" THEN return_syntax_error(0 - EINVAL, c2, vl)
      ELSE Ret(0, [c2 EXCEPT !.macaddr = m.rest], vl)

parse_ip_arg(arg, vl) ==
  IF ~strchr(arg, ":") THEN Ret(0, [EmptyCfg EXCEPT !.autoconf = arg], vl)
  ELSE LET e == extract_ip_addr(arg, TRUE)
       IN  IF e.r = 0 THEN IpPeer([EmptyCfg EXCEPT !.client_ip = e.tok], e.rest, vl)
           ELSE IF ~e.set THEN Fault(EmptyCfg, vl)
           ELSE IpShort(e.tok, e.rest, vl)

parse_nameserver_arg(arg, vl) ==
  LET e == extract_ip_addr(arg, TRUE)
      c == [EmptyCfg EXCEPT !.dns1 = e.tok]
  IN  IF e.r < 0 THEN return_syntax_error(e.r, EmptyCfg, vl)
      ELSE IF ~isempty(e.rest) THEN return_syntax_error(0 - EINVAL, c, vl)
      ELSE Ret(0, c, vl)

parse_rd_peerdns_arg(arg, vl) ==
  LET w == extract_word(arg, TRUE)
      c == IF w.tok = <<"0">> THEN [EmptyCfg EXCEPT !.use_dns = 1]
           ELSE [EmptyCfg EXCEPT !.use_dns = 2]
  IN  IF w.over THEN Fault(EmptyCfg, vl)
      ELSE IF w.r < 0 THEN return_syntax_error(w.r, EmptyCfg, vl)
      ELSE IF w.tok \notin {<<"0">>, <<"1">>} THEN return_syntax_error(0 - EINVAL, EmptyCfg, vl)
      ELSE IF ~isempty(w.rest) THEN return_syntax_error(0 - EINVAL, c, vl)
      ELSE Ret(0, c, vl)

parse_rd_route_arg(arg, vl) ==
  LET w == extract_word(arg, TRUE)
      dest == IF w.tok # <<>> /\ w.tok[1] = "[" THEN SubSeq(w.tok, 2, Len(w.tok) - 1) ELSE w.tok
      c1 == [EmptyCfg EXCEPT !.destination = dest]
      e == extract_ip_addr(w.rest, FALSE)
      c2 == [c1 EXCEPT !.gateway = e.tok]
      i == extract_word(e.rest, TRUE)
      c3 == [c2 EXCEPT !.interface = i.tok]
  IN  IF w.r < 0 THEN return_syntax_error(w.r, EmptyCfg, vl)
      ELSE IF w.over \/ e.fault THEN Fault(c1, vl)
      ELSE IF e.r < 0 THEN return_syntax_error(e.r, c1, vl)
      ELSE IF isempty(e.rest) THEN Ret(0, c2, vl)
      ELSE IF i.over THEN Fault(c2, vl)
      ELSE IF i.r < 0 THEN return_syntax_error(i.r, c2, vl)
      ELSE IF ~isempty(i.rest) THEN return_syntax_error(0 - EINVAL, c3, vl)
      ELSE Ret(0, c3, vl)

parse_vlan_arg(arg, vl) ==
  LET w == extract_word(arg, TRUE)
      g == get_vlan_id(w.tok, vl)
      c1 == [EmptyCfg EXCEPT !.vlan1 = g.id]
      i == extract_word(w.rest, TRUE)
      c2 == [c1 EXCEPT !.interface = i.tok]
  IN  IF w.r < 0 THEN return_syntax_error(w.r, EmptyCfg, vl)
      ELSE IF w.over THEN Fault(EmptyCfg, vl)
      ELSE IF g.r < 0 THEN return_syntax_error(g.r, EmptyCfg, vl)
      ELSE IF i.fault \/ i.over THEN Fault(c1, g.vlans)
      ELSE IF i.r < 0 THEN return_syntax_error(i.r, c1, g.vlans)
      ELSE IF ~isempty(i.rest) THEN return_syntax_error(0 - EINVAL, c2, g.vlans)
      ELSE Ret(0, c2, g.vlans)

(* ----------------------------------------------------------------------- *)
(* Interface record merger (rdii-networkd.c)                               *)
(* ----------------------------------------------------------------------- *)
(* a copy that does not look whether the new value is empty *)
CopyStrAlways(new, old) == new

CopyStr(new, old) == IF ~isempty(new) THEN new ELSE old

CopyInt(new, old) == IF new # 0 THEN new ELSE old

(* the gateway that is in the slot moves to gateway1 when a new one comes  *)
ShiftGateway(cfg, rec) ==
  IF ~isempty(cfg.gateway) /\ rec.gateway # NULL THEN rec.gateway ELSE rec.gateway1

(* dup_config(cfg, slot): rec is configs[slot]; gives the return value and *)
(* the slot as the function leaves it                                      *)
dup_config(cfg, rec) ==
  LET base == [rec EXCEPT
                 !.client_ip = CopyStr(cfg.client_ip, @),
                 !.peer_ip = CopyStr(cfg.peer_ip, @),
                 !.gateway1 = ShiftGateway(cfg, rec),
                 !.gateway = CopyStr(cfg.gateway, @),
                 !.destination = CopyStr(cfg.destination, @),
                 !.netmask = CopyInt(cfg.netmask, @),
                 !.hostname = CopyStr(cfg.hostname, @),
                 !.interface = CopyStr(cfg.interface, @),
                 !.autoconf = CopyStr(cfg.autoconf, @),
                 !.use_dns = CopyInt(cfg.use_dns, @),
                 !.dns1 = CopyStr(cfg.dns1, @),
                 !.dns2 = CopyStr(cfg.dns2, @),
                 !.ntp = CopyStr(cfg.ntp, @),
                 !.mtu = CopyStr(cfg.mtu, @),
                 !.macaddr = CopyStr(cfg.macaddr, @),
                 !.domains = CopyStr(cfg.domains, @)]
  IN  IF cfg.vlan1 = 0 THEN [r |-> 0, rec |-> base]
      ELSE IF base.vlan1 = 0 THEN [r |-> 0, rec |-> [base EXCEPT !.vlan1 = cfg.vlan1]]
      ELSE IF base.vlan2 = 0 THEN [r |-> 0, rec |-> [base EXCEPT !.vlan2 = cfg.vlan1]]
      ELSE IF base.vlan3 = 0 THEN [r |-> 0, rec |-> [base EXCEPT !.vlan3 = cfg.vlan1]]
      ELSE [r |-> 0 - ENOMEM, rec |-> base]

SameInterface(rec, cfg) ==
  rec.interface # NULL /\ cfg.interface # NULL /\ streq(rec.interface, cfg.interface)

TableFull(cfgs) == Len(cfgs) = MAX_INTERFACES

(* merge_configs that stops at the first record with an interface *)
RECURSIVE MergeLoopFirstOnly(_, _, _, _)
MergeLoopFirstOnly(cfg, cfgs, i, found) ==
  IF i > Len(cfgs) THEN [r |-> 0, configs |-> cfgs, found |-> found, done |-> FALSE]
  ELSE IF SameInterface(cfgs[i], cfg)
  THEN LET d == dup_config(cfg, cfgs[i])
       IN  [r |-> d.r, configs |-> [cfgs EXCEPT ![i] = d.rec], found |-> found, done |-> TRUE]
  ELSE IF cfgs[i].interface # NULL /\ cfg.interface = NULL
  THEN LET d == dup_config(cfg, cfgs[i])
       IN  [r |-> d.r, configs |-> [cfgs EXCEPT ![i] = d.rec], found |-> TRUE, done |-> d.r < 0]
  ELSE MergeLoopFirstOnly(cfg, cfgs, i + 1, found)

(* the for loop of merge_configs from index i on; done: the function       *)
(* returned from inside the loop                                           *)
RECURSIVE MergeLoop(_, _, _, _)
MergeLoop(cfg, cfgs, i, found) ==
  IF i > Len(cfgs) THEN [r |-> 0, configs |-> cfgs, found |-> found, done |-> FALSE]
  ELSE IF SameInterface(cfgs[i], cfg)
  THEN LET d == dup_config(cfg, cfgs[i])
       IN  [r |-> d.r, configs |-> [cfgs EXCEPT ![i] = d.rec], found |-> found, done |-> TRUE]
  ELSE IF cfgs[i].interface # NULL /\ cfg.interface = NULL
  THEN LET d == dup_config(cfg, cfgs[i])
       IN  IF d.r < 0
           THEN [r |-> d.r, configs |-> [cfgs EXCEPT ![i] = d.rec], found |-> found, done |-> TRUE]
           ELSE MergeLoop(cfg, [cfgs EXCEPT ![i] = d.rec], i + 1, TRUE)
  ELSE MergeLoop(cfg, cfgs, i + 1, found)

(* merge_configs(cfg): the return value and the table it leaves            *)
merge_configs(cfg, cfgs) ==
  IF TableFull(cfgs) THEN [r |-> 0 - ENOMEM, configs |-> cfgs]
  ELSE LET m == MergeLoop(cfg, cfgs, 1, FALSE)
           d == dup_config(cfg, EmptyCfg)
       IN  IF m.done THEN [r |-> m.r, configs |-> m.configs]
           ELSE IF m.found THEN [r |-> 0, configs |-> m.configs]
           ELSE [r |-> d.r, configs |-> Append(m.configs, d.rec)]

(* ----------------------------------------------------------------------- *)
(* Config emitter (rdii-networkd.c)                                        *)
(* ----------------------------------------------------------------------- *)
Mappings == << <<"none", "no">>, <<"off", "no">>, <<"on", "yes">>, <<"any", "yes">>,
               <<"dhcp", "ipv4">>, <<"dhcp6", "ipv6">>, <<"auto6", "no">>,
               <<"either6", "ipv6">>, <<"ibft", "no">>, <<"link6", "no">>,
               <<"link-local", "no">> >>

(* the characters of a string constant of the program *)
Chars(str) ==
  CASE str = "none" -> <<"n", "o", "n", "e">>
    [] str = "off" -> <<"o", "f", "f">>
    [] str = "on" -> <<"o", "n">>
    [] str = "any" -> <<"a", "n", "y">>
    [] str = "dhcp" -> <<"d", "h", "c", "p">>
    [] str = "dhcp4" -> <<"d", "h", "c", "p", "4">>
    [] str = "dhcp6" -> <<"d", "h", "c", "p", "6">>
    [] str = "auto6" -> <<"a", "u", "t", "o", "6">>
    [] str = "either6" -> <<"e", "i", "t", "h", "e", "r", "6">>
    [] str = "ibft" -> <<"i", "b", "f", "t">>
    [] str = "link6" -> <<"l", "i", "n", "k", "6">>
    [] str = "link-local" -> <<"l", "i", "n", "k", "-", "l", "o", "c", "a", "l">>
    [] str = "rfc2132" -> <<"r", "f", "c", "2", "1", "3", "2">>
    [] str = "ip=" -> <<"i", "p", "=">>
    [] str = "nameserver=" -> <<"n", "a", "m", "e", "s", "e", "r", "v", "e", "r", "=">>
    [] str = "rd.peerdns=" -> <<"r", "d", ".", "p", "e", "e", "r", "d", "n", "s", "=">>
    [] str = "rd.route=" -> <<"r", "d", ".", "r", "o", "u", "t", "e", "=">>
    [] str = "vlan=" -> <<"v", "l", "a", "n", "=">>
    [] str = "ifcfg=" -> <<"i", "f", "c", "f", "g", "=">>

(* map_dracut_to_networkd: the networkd word, or "NULL" *)
RECURSIVE MapLoop(_, _)
MapLoop(input, i) ==
  IF i > Len(Mappings) THEN "NULL"
  ELSE IF streq(input, Chars(Mappings[i][1])) THEN Mappings[i][2]
  ELSE MapLoop(input, i + 1)

map_dracut_to_networkd(input) == IF isempty(input) THEN "NULL" ELSE MapLoop(input, 1)

(* write_vlan_entry: the VLAN= line of the first table entry with this id  *)
write_vlan_entry(vlanid, vl) ==
  LET hits == {i \in 1..Len(vl) : vl[i].id = vlanid}
  IN  IF vlanid = 0 \/ hits = {} THEN <<>>
      ELSE << <<"VLAN=">> \o vl[CHOOSE i \in hits : \A j \in hits : i <= j].name >>

Opt(cond, lines) == IF cond THEN lines ELSE <<>>

MatchSection(cfg) ==
  << <<"[Match]">> >> \o
  (IF isempty(cfg.interface) \/ streq(cfg.interface, <<"*">>)
   THEN << <<"Kind=!*">>, <<"Type=!loopback">> >>
   ELSE IF strchr(cfg.interface, ":")
   THEN << <<"Name=*">>, <<"MACAddress=">> \o cfg.interface >>
   ELSE << <<"Name=">> \o cfg.interface >>)

LinkSection(cfg) ==
  Opt(~isempty(cfg.mtu) \/ ~isempty(cfg.macaddr),
      << <<>>, <<"[Link]">> >> \o
      Opt(~isempty(cfg.macaddr), << <<"MACAddress=">> \o cfg.macaddr >>) \o
      Opt(~isempty(cfg.mtu), << <<"MTUBytes=">> \o cfg.mtu >>))

(* fprintf(fp, "DHCP=%s\n", map_dracut_to_networkd(autoconf)); a NULL      *)
(* argument is printed by the C library as "(null)"                        *)
DhcpLine(autoconf) ==
  IF map_dracut_to_networkd(autoconf) = "NULL" THEN <<"DHCP=", "(null)">>
  ELSE <<"DHCP=", map_dracut_to_networkd(autoconf)>>

NetworkSection(cfg, vl) ==
  Opt(~isempty(cfg.autoconf) \/ ~isempty(cfg.dns1) \/ ~isempty(cfg.dns2) \/
      ~isempty(cfg.ntp) \/ cfg.vlan1 # 0,
      << <<>>, <<"[Network]">> >> \o
      Opt(~isempty(cfg.autoconf), << DhcpLine(cfg.autoconf) >>) \o
      Opt(~isempty(cfg.autoconf) /\ streq(cfg.autoconf, Chars("off")),
          << <<"LinkLocalAddressing=no">>, <<"IPv6AcceptRA=no">> >>) \o
      Opt(~isempty(cfg.dns1), << <<"DNS=">> \o cfg.dns1 >>) \o
      Opt(~isempty(cfg.dns2), << <<"DNS=">> \o cfg.dns2 >>) \o
      Opt(~isempty(cfg.domains), << <<"Domains=">> \o cfg.domains >>) \o
      Opt(~isempty(cfg.ntp), << <<"NTP=">> \o cfg.ntp >>) \o
      write_vlan_entry(cfg.vlan1, vl) \o
      write_vlan_entry(cfg.vlan2, vl) \o
      write_vlan_entry(cfg.vlan3, vl))

DhcpSection(cfg) ==
  Opt(~isempty(cfg.hostname) \/ cfg.use_dns > 0,
      << <<>>, <<"[DHCP]">> >> \o
      Opt(cfg.hostname # NULL, << <<"Hostname=">> \o cfg.hostname >>) \o
      Opt(cfg.use_dns = 1, << <<"UseDNS=no">> >>) \o
      Opt(cfg.use_dns = 2, << <<"UseDNS=yes">> >>))

AddressSection(cfg) ==
  Opt(~isempty(cfg.client_ip),
      << <<>>, <<"[Address]">>,
         <<"Address=">> \o cfg.client_ip \o <<"/">> \o FmtD(cfg.netmask) >> \o
      Opt(~isempty(cfg.peer_ip), << <<"Peer=">> \o cfg.peer_ip >>))

RouteSections(cfg) ==
  Opt(~isempty(cfg.gateway) \/ ~isempty(cfg.destination),
      << <<>>, <<"[Route]">> >> \o
      Opt(~isempty(cfg.destination), << <<"Destination=">> \o cfg.destination >>) \o
      Opt(~isempty(cfg.gateway), << <<"Gateway=">> \o cfg.gateway >>)) \o
  Opt(~isempty(cfg.gateway1),
      << <<>>, <<"[Route]">>, <<"Gateway=">> \o cfg.gateway1 >>)

(* write_network_config: the lines of <outdir>/66-ip-NN.network            *)
write_network_config(cfg, vl) ==
  MatchSection(cfg) \o LinkSection(cfg) \o NetworkSection(cfg, vl) \o
  DhcpSection(cfg) \o AddressSection(cfg) \o RouteSections(cfg)

IpFileName(line_num) == <<"66-ip-">> \o FmtD0(line_num, 2) \o <<".network">>

(* write_netdev_file: name and lines of <outdir>/62-rdii-<name>.netdev     *)
NetdevFileName(vlan) == <<"62-rdii-">> \o vlan.name \o <<".netdev">>

write_netdev_file(vlan) ==
  << <<"[NetDev]">>, <<"Name=">> \o vlan.name, <<"Kind=vlan">>,
     <<>>, <<"[VLAN]">>, <<"Id=">> \o FmtD(vlan.id) >>

(* ----------------------------------------------------------------------- *)
(* The ifcfg= path (ifcfg.c): it writes its files while it parses and      *)
(* keeps its own table of VLAN ids                                         *)
(* ----------------------------------------------------------------------- *)
Space == {" ", "\t", "\n", "\r"}

RECURSIVE SkipLeft(_)
SkipLeft(s) == IF s # <<>> /\ s[1] \in Space THEN SkipLeft(Tail(s)) ELSE s

RECURSIVE SkipRight(_)
SkipRight(s) == IF Len(s) > 1 /\ s[Len(s)] \in Space THEN SkipRight(SubSeq(s, 1, Len(s) - 1)) ELSE s

trim_whitespace(str) == IF isempty(str) THEN NULL ELSE SkipRight(SkipLeft(str))

(* split_and_write: one "key=item" line for every space-separated item     *)
split_and_write(key, list) ==
  IF isempty(list) THEN <<>>
  ELSE LET items == Split(list, " ")
       IN  [i \in 1..Len(items) |-> <<key>> \o items[i]]

IfcfgFileName(nr) == <<"66-ifcfg-dev-">> \o FmtD0(nr, 2) \o <<".network">>

VlanFileName(interface) == <<"64-ifcfg-vlan-">> \o interface \o <<".network">>

VlanLine(vlanid) == <<"VLAN=Vlan">> \o FmtD0(vlanid, 4)

(* write_vlan_file: creates the parent's file, or appends to the one that  *)
(* is there                                                                *)
write_vlan_file(interface, vlanid, fs) ==
  LET name == VlanFileName(interface)
  IN  IF name \notin DOMAIN fs
      THEN (name :> << <<"[Match]">>, <<"Name=">> \o interface, <<"Type=ether">>,
                       <<>>, <<"[Network]">>,
                       <<"Description=The unconfigured physical ethernet device">>,
                       VlanLine(vlanid),
                       <<"# 'tagged only' setup">>,
                       <<"LinkLocalAddressing=no">>, <<"LLDP=no">>, <<"EmitLLDP=no">>,
                       <<"IPv6AcceptRA=no">>, <<"IPv6SendRA=no">> >>) @@ fs
      ELSE [fs EXCEPT ![name] = Append(@, VlanLine(vlanid))]

(* write_network_file of ifcfg.c: the lines of 66-ifcfg-dev-NN.network     *)
IfcfgNetworkLines(cfg, rfc2132, vlanid) ==
  << <<"[Match]">> >> \o
  (IF vlanid # 0 THEN << <<"Name=Vlan">> \o FmtD0(vlanid, 4), <<"Type=vlan">> >>
   ELSE IF strchr(cfg.interface, ":")
   THEN << <<"Name=*">>, <<"MACAddress=">> \o cfg.interface >>
   ELSE << <<"Name=">> \o cfg.interface >>) \o
  << <<>>, <<"[Network]">> >> \o
  Opt(~isempty(cfg.autoconf) /\ streq(cfg.autoconf, Chars("dhcp")), << <<"DHCP=yes">> >>) \o
  Opt(~isempty(cfg.autoconf) /\ streq(cfg.autoconf, Chars("dhcp4")), << <<"DHCP=ipv4">> >>) \o
  Opt(~isempty(cfg.autoconf) /\ streq(cfg.autoconf, Chars("dhcp6")), << <<"DHCP=ipv6">> >>) \o
  split_and_write("Address=", cfg.client_ip) \o
  split_and_write("Gateway=", cfg.gateway) \o
  split_and_write("DNS=", cfg.dns1) \o
  Opt(~isempty(cfg.domains), << <<"Domains=">> \o cfg.domains >>) \o
  Opt(~isempty(cfg.autoconf) /\ cfg.autoconf \in {Chars("dhcp"), Chars("dhcp4")},
      << <<>>, <<"[DHCPv4]">>, <<"UseHostname=false">>, <<"UseDNS=true">>, <<"UseNTP=true">> >> \o
      Opt(rfc2132, << <<"ClientIdentifier=mac">> >>)) \o
  Opt(~isempty(cfg.autoconf) /\ cfg.autoconf \in {Chars("dhcp"), Chars("dhcp6")},
      << <<>>, <<"[DHCPv6]">>, <<"UseHostname=false">>, <<"UseDNS=true">>, <<"UseNTP=true">> >>)

write_network_file(nr, cfg, rfc2132, vlanid, fs) ==
  LET written == (IfcfgFileName(nr) :> IfcfgNetworkLines(cfg, rfc2132, vlanid)) @@ fs
  IN  IF vlanid # 0 THEN write_vlan_file(cfg.interface, vlanid, written) ELSE written

IfcfgRet(r, rep, ivl, fs) == [r |-> r, reported |-> rep, fault |-> FALSE, ifcfg_vlans |-> ivl, files |-> fs]

(* the <ip-spec> part of parse_ifcfg_arg, from the four strsep calls on    *)
IfcfgSpec(nr, iface, vlanid, str, ivl, fs) ==
  LET s1 == strsep(str, {","})
      s2 == strsep(s1.rest, {","})
      s3 == strsep(s2.rest, {","})
      s4 == strsep(s3.rest, {","})
      ip_list == trim_whitespace(s1.tok)
      gw_list == trim_whitespace(s2.tok)
      dns_list == trim_whitespace(s3.tok)
      domains == trim_whitespace(s4.tok)
      base == [EmptyCfg EXCEPT !.interface = iface]
      cfg == IF startswith(ip_list, Chars("dhcp"))
             THEN [base EXCEPT !.autoconf = ip_list]
             ELSE [base EXCEPT !.client_ip = ip_list, !.gateway = gw_list,
                               !.dns1 = dns_list, !.domains = domains]
      rfc2132 == startswith(ip_list, Chars("dhcp")) /\ ~isempty(gw_list) /\
                 streq(gw_list, Chars("rfc2132"))
  IN  IF ip_list = NULL
      THEN [r |-> 0, reported |-> FALSE, fault |-> TRUE, ifcfg_vlans |-> ivl, files |-> fs]
      ELSE IfcfgRet(0, FALSE, ivl, write_network_file(nr, cfg, rfc2132, vlanid, fs))

(* parse_ifcfg_arg(output_dir, nr, arg): ivl is the VLAN id table of       *)
(* ifcfg.c, fs the files of the output directory                           *)
parse_ifcfg_arg(nr, arg, ivl, fs) ==
  LET w == strsep(arg, {"="})
      dot == LastOf(w.tok, ".", Len(w.tok))
      parent == SubSeq(w.tok, 1, dot - 1)
      idstr == SubSeq(w.tok, dot + 1, Len(w.tok))
      vlanid == StrtolVal(idstr)
  IN  IF isempty(w.tok) THEN IfcfgRet(0 - EINVAL, TRUE, ivl, fs)
      ELSE IF isempty(w.rest) THEN IfcfgRet(0 - ENOENT, TRUE, ivl, fs)
      ELSE IF dot = 0 THEN IfcfgSpec(nr, w.tok, 0, w.rest, ivl, fs)
      ELSE IF ~StrtolWhole(idstr) \/ vlanid < 1 \/ vlanid > 4095
      THEN IfcfgRet(0 - EINVAL, FALSE, ivl, fs)
      ELSE IF vlanid \in {ivl[i] : i \in 1..Len(ivl)}
      THEN IfcfgSpec(nr, parent, vlanid, w.rest, ivl, fs)
      ELSE IF Len(ivl) + 1 = VLAN_CAPACITY
      THEN IfcfgRet(0 - ENOMEM, FALSE, ivl, fs)
      ELSE IfcfgSpec(nr, parent, vlanid, w.rest, Append(ivl, vlanid), fs)

(* ----------------------------------------------------------------------- *)
(* Inputs: directives, joined to a command line or put one on a line       *)
(* ----------------------------------------------------------------------- *)
Eth0 == <<"e", "t", "h", "0">>

Eth1 == <<"e", "t", "h", "1">>

Colon == <<":">>

TokIpShort0 == Chars("ip=") \o Eth0 \o Colon \o Chars("dhcp")

TokIpLong0 == Chars("ip=") \o <<"1", ".", "0", ".", "0", ".", "2">> \o Colon \o Colon \o
              <<"1", ".", "0", ".", "0", ".", "1">> \o Colon \o <<"2", "4">> \o Colon \o Colon \o
              Eth0 \o Colon \o Chars("off")

TokRoute0 == Chars("rd.route=") \o <<"2", ".", "0", ".", "0", ".", "0", "/", "8">> \o Colon \o
             <<"1", ".", "0", ".", "0", ".", "9">> \o Colon \o Eth0

TokRouteFree == Chars("rd.route=") \o <<"3", ".", "0", ".", "0", ".", "0", "/", "8">> \o Colon \o
                <<"1", ".", "0", ".", "0", ".", "8">>

TokNameServer == Chars("nameserver=") \o <<"8", ".", "8", ".", "8", ".", "8">>

TokVlan5 == Chars("vlan=") \o <<"v", "l", "a", "n", "5">> \o Colon \o Eth0

TokIpBogus1 == Chars("ip=") \o Eth1 \o Colon \o <<"b", "o", "g", "u", "s">>

TokPeerDnsBad == Chars("rd.peerdns=") \o <<"2">>

TokIfcfgVlan == Chars("ifcfg=") \o Eth1 \o <<".", "7", "=">> \o Chars("dhcp")

TokUnknown == <<"q", "u", "i", "e", "t">>

Comment == <<"#", "c">>

Directives == {TokIpShort0, TokIpLong0, TokRoute0, TokRouteFree, TokNameServer,
               TokVlan5, TokIpBogus1, TokPeerDnsBad, TokIfcfgVlan, TokUnknown}

(* /proc/cmdline differs from the argument list in how the line is read,   *)
(* not in the tokens: a smaller choice of tokens                           *)
ProcPool == {TokIpShort0, TokVlan5, TokIfcfgVlan, TokUnknown}

(* what follows a table filled up to its capacity *)
FillPool == {TokIpShort0, TokRoute0, TokNameServer, TokVlan5, TokUnknown}

(* a directive that appends one anonymous record each time it is given     *)
Filler == TokNameServer

FillCounts == {MAX_INTERFACES - 1, MAX_INTERFACES}

Fill(n) == [i \in 1..n |-> Filler]

(* VLAN declarations with the ids 1, 2, ..., three to a parent, to fill the *)
(* VLAN table, and what follows them: an id that is stored, and a new one  *)
TokVlanN(i) ==
  <<"v", "l", "a", "n", "=", "v", "l", "a", "n">> \o FmtD(i) \o
  <<":", "e", "t", "h">> \o FmtD((i - 1) \div 3)

TokVlan77 == <<"v", "l", "a", "n", "=", "v", "l", "a", "n", "7", "7", ":", "e", "t", "h", "3">>

VlanFill(n) == [i \in 1..n |-> TokVlanN(i)]

VlanFillCounts == {VLAN_CAPACITY - 2, VLAN_CAPACITY - 1}

VlanPool == {TokVlan5, TokVlan77}

(* routes: a destination alone, and destination and gateway in brackets    *)
TokRouteDest == Chars("rd.route=") \o <<"3", ".", "0", ".", "0", ".", "0", "/", "8">>

TokRoute6 == Chars("rd.route=") \o
             <<"[", "2", "0", "0", "1", ":", "d", "b", "8", ":", "3", ":", ":", "/", "4", "8", "]">> \o Colon \o
             <<"[", "2", "0", "0", "1", ":", "d", "b", "8", ":", "2", ":", ":", "1", "]">> \o Colon \o Eth0

RoutePool(m) == IF m = "args" THEN {TokRouteDest, TokRoute6, TokRoute0}
                ELSE {TokRouteDest, TokRoute0}

(* an ip= directive whose last field is neither empty nor an address      *)
TokIpNtpBad == TokIpLong0 \o Colon \o Colon \o <<"d">> \o Colon \o <<"x">>

SyntaxPool == {TokIpNtpBad, TokPeerDnsBad, TokIpShort0}

(* netmasks in dotted-quad form: the four octets, each from MaskOctets     *)
MaskOctets == {0, 1, 128, 254, 255}

MaskQuads == [1..4 -> MaskOctets]

Dotted(q) == FmtD(q[1]) \o <<".">> \o FmtD(q[2]) \o <<".">> \o FmtD(q[3]) \o <<".">> \o FmtD(q[4])

TokIpMask(q) ==
  Chars("ip=") \o <<"1", ".", "0", ".", "0", ".", "2">> \o Colon \o Colon \o
  <<"1", ".", "0", ".", "0", ".", "1">> \o Colon \o Dotted(q) \o Colon \o Colon \o
  Eth0 \o Colon \o Chars("off")

(* one directive for each way a file gets written: the merge table, the   *)
(* VLAN table, the ifcfg= path                                             *)
OutPool == {TokIpShort0, TokVlan5, TokIfcfgVlan}

TokenSeqs(pool, n) == UNION {[1..k -> pool] : k \in 0..n}

(* main, lines 650-657: the arguments joined by single spaces *)
RECURSIVE JoinArgs(_)
JoinArgs(argv) == IF argv = <<>> THEN <<>>
                  ELSE IF Len(argv) = 1 THEN argv[1]
                  ELSE argv[1] \o <<" ">> \o JoinArgs(Tail(argv))

(* the lines getline returns for a file with one directive on each line *)
FileOf(toks) == [i \in 1..Len(toks) |-> toks[i] \o <<"\n">>]

(* ----------------------------------------------------------------------- *)
(* State                                                                   *)
(* ----------------------------------------------------------------------- *)
VARIABLES
  mode,         \* "file" (--config), "args" (positional arguments), "proc" (/proc/cmdline)
  parse_all,    \* the --parse-all flag
  cfgfile,      \* file mode: the lines of the configuration file
  line_count,   \* file mode: lines read so far
  line,         \* command-line modes: the text in the line buffer
  cp,           \* command-line modes: index of the next character to scan
  in_quote,     \* command-line modes: inside double quotes
  nr,           \* command-line modes: number of the next entry
  configs,      \* the merge table, configs[1..used_configs]
  vlans,        \* the VLAN table of rdii-networkd.c
  ifcfg_vlans,  \* the VLAN id table of ifcfg.c
  files,        \* the output directory: file name -> lines
  linebuf,      \* file mode: the bytes of the block getline reads into
  bound,        \* file mode: the entries of vlans whose name points into linebuf
  outdir_ok,    \* fopen of a file in the output directory succeeds
  history,      \* the output directory as each earlier invocation left it
  efivarfs,     \* libefivars: /sys/firmware/efi/efivars as the firmware left it
  efi_pc,       \* efi_get_boot_source: "idle", "start", "stub", "current", "partition", "returned"
  efi,          \* efi_get_boot_source: the record it fills
  efi_r,        \* efi_get_boot_source: its variable r, its value once it returned
  efi_tried,    \* the strategies run so far
  pc,           \* "parse", "done"
  exit_code     \* exit status of the process, -1 while it runs

vars == <<mode, parse_all, cfgfile, line_count, line, cp, in_quote, nr,
          configs, vlans, ifcfg_vlans, files, linebuf, bound, outdir_ok, history,
          efivarfs, efi_pc, efi, efi_r, efi_tried, pc, exit_code>>

(* the state of rdii-networkd and the state of the boot-source resolver *)
networkd_state == <<mode, parse_all, cfgfile, line_count, line, cp, in_quote, nr,
                    configs, vlans, ifcfg_vlans, files, linebuf, bound, outdir_ok,
                    history, pc, exit_code>>

efi_state == <<efivarfs, efi_pc, efi, efi_r, efi_tried>>

used_configs == Len(configs)

nr_vlanids == Len(vlans)

SIGSEGV_STATUS == 139

(* the errno of an fopen that fails *)
EACCES == 13

InitTables ==
  /\ line_count = 0
  /\ cp = 1
  /\ in_quote = FALSE
  /\ nr = 1
  /\ configs = <<>>
  /\ vlans = <<>>
  /\ ifcfg_vlans = <<>>
  /\ files = <<>>
  /\ linebuf = <<>>
  /\ bound = {}
  /\ history = <<>>
  /\ pc = "parse"
  /\ exit_code = -1

(* calloc(1, sizeof(efivars_t)) *)
EmptyEfi == [url |-> NULL, device |-> NULL, image |-> NULL, entry |-> NULL,
             def_efi_partition |-> NULL, is_pxe_boot |-> FALSE]

(* rdii-networkd does not look at the EFI variables *)
EfiIdle ==
  /\ efivarfs = [access |-> 0 - ENOENT, vars |-> <<>>]
  /\ efi_pc = "idle"
  /\ efi = EmptyEfi
  /\ efi_r = 0
  /\ efi_tried = {}

InitInput(m, toks) ==
  /\ mode = m
  /\ cfgfile = IF m = "file" THEN FileOf(toks) ELSE <<>>
  /\ line = IF m = "args" THEN JoinArgs(toks)
            ELSE IF m = "proc" THEN JoinArgs(toks) \o <<"\n">>
            ELSE <<>>

Init ==
  /\ InitTables
  /\ outdir_ok = TRUE
  /\ EfiIdle
  /\ parse_all \in BOOLEAN
  /\ \/ \E toks \in TokenSeqs(Directives, MaxTokens) \ {<<>>} : InitInput("args", toks)
     \/ \E toks \in TokenSeqs(ProcPool, MaxTokens) : InitInput("proc", toks)
     \/ \E toks \in TokenSeqs(Directives \cup {Comment}, MaxTokens) :
          InitInput("file", toks)
     \/ \E m \in {"args", "file"}, f \in FillCounts, toks \in TokenSeqs(FillPool, MaxTokens - 1) :
          InitInput(m, Fill(f) \o toks)
     \/ \E m \in {"args", "file"}, f \in VlanFillCounts, toks \in TokenSeqs(VlanPool, MaxTokens - 1) :
          InitInput(m, VlanFill(f) \o toks)
     \/ \E m \in {"args", "file"} : \E toks \in TokenSeqs(RoutePool(m), MaxTokens - 1) \ {<<>>} :
          InitInput(m, toks)
     \/ \E m \in {"args", "file"} : \E toks \in TokenSeqs(SyntaxPool, MaxTokens - 1) \ {<<>>} :
          InitInput(m, toks)

(* runs over one ip= directive with a dotted-quad netmask *)
InitMask ==
  /\ InitTables
  /\ outdir_ok = TRUE
  /\ EfiIdle
  /\ parse_all \in BOOLEAN
  /\ \E m \in {"args", "file"}, q \in MaskQuads : InitInput(m, <<TokIpMask(q)>>)

(* runs repeated on their output directory *)
InitRerun ==
  /\ InitTables
  /\ outdir_ok = TRUE
  /\ EfiIdle
  /\ parse_all \in BOOLEAN
  /\ \E m \in {"args", "file"} : \E toks \in TokenSeqs(OutPool, MaxTokens - 1) \ {<<>>} :
       InitInput(m, toks)

(* runs with an output directory that can and that cannot be written *)
InitIO ==
  /\ InitTables
  /\ outdir_ok \in BOOLEAN
  /\ EfiIdle
  /\ parse_all \in BOOLEAN
  /\ \E m \in {"args", "file"} : \E toks \in TokenSeqs(OutPool, MaxTokens - 1) \ {<<>>} :
       InitInput(m, toks)

(* ----------------------------------------------------------------------- *)
(* main: dispatch of one line or token                                     *)
(* ----------------------------------------------------------------------- *)
Drop(s, n) == SubSeq(s, n + 1, Len(s))

(* an unknown prefix taken for a syntax error *)
IgnoredAsError(vl) == return_syntax_error(0 - EINVAL, EmptyCfg, vl)

Ignored(vl) == Ret(R_IGNORED, EmptyCfg, vl)

(* the five sub-parsers as main selects them on the command line (lines    *)
(* 728-739); head is the C string at the start of the line buffer          *)
CmdlineSelect(tok, head, vl) ==
  IF startswith(tok, Chars("ip=")) THEN parse_ip_arg(Drop(tok, 3), vl)
  ELSE IF startswith(tok, Chars("nameserver=")) THEN parse_nameserver_arg(Drop(tok, 11), vl)
  ELSE IF startswith(tok, Chars("rd.peerdns=")) THEN parse_rd_peerdns_arg(Drop(tok, 11), vl)
  ELSE IF startswith(tok, Chars("rd.route=")) THEN parse_rd_route_arg(Drop(tok, 9), vl)
  ELSE IF startswith(head, Chars("vlan="))
  THEN IF Len(tok) < 5 THEN Fault(EmptyCfg, vl) ELSE parse_vlan_arg(Drop(tok, 5), vl)
  ELSE Ignored(vl)

(* the same for a line of the configuration file (lines 593-602) *)
FileSelect(ln, vl) ==
  IF startswith(ln, Chars("ip=")) THEN parse_ip_arg(Drop(ln, 3), vl)
  ELSE IF startswith(ln, Chars("nameserver=")) THEN parse_nameserver_arg(Drop(ln, 11), vl)
  ELSE IF startswith(ln, Chars("rd.peerdns=")) THEN parse_rd_peerdns_arg(Drop(ln, 11), vl)
  ELSE IF startswith(ln, Chars("rd.route=")) THEN parse_rd_route_arg(Drop(ln, 9), vl)
  ELSE IF startswith(ln, Chars("vlan=")) THEN parse_vlan_arg(Drop(ln, 5), vl)
  ELSE Ignored(vl)

(* what one dispatch leaves: the tables, the files, and the exit status if *)
(* the process ended (-1 if it goes on)                                    *)
Outcome(cfgs, vl, ivl, fs, ec) ==
  [configs |-> cfgs, vlans |-> vl, ifcfg_vlans |-> ivl, files |-> fs, exit |-> ec]

(* lines 612-616 and 741-745: "if (r < 0) return -r; if (r == 0)           *)
(* merge_configs(&cfg);" -- the value of merge_configs is not looked at    *)
AfterParse(res, cfgs, ivl, fs) ==
  IF res.fault THEN Outcome(cfgs, res.vlans, ivl, fs, SIGSEGV_STATUS)
  ELSE IF res.r < 0 THEN Outcome(cfgs, res.vlans, ivl, fs, 0 - res.r)
  ELSE IF res.r = 0 THEN Outcome(merge_configs(res.cfg, cfgs).configs, res.vlans, ivl, fs, -1)
  ELSE Outcome(cfgs, res.vlans, ivl, fs, -1)

(* lines 703-712: the ifcfg= value without the quotes around it *)
StripQuotes(val) ==
  IF val # <<>> /\ val[1] = "\""
  THEN IF Len(val) > 1 /\ val[Len(val)] = "\"" THEN SubSeq(val, 2, Len(val) - 1) ELSE Tail(val)
  ELSE val

(* the dispatch without the -a gate *)
DispatchTokenUngated(tok, head, all, n, cfgs, vl, ivl, fs) ==
  IF startswith(tok, Chars("ifcfg="))
  THEN LET i == parse_ifcfg_arg(n, StripQuotes(Drop(tok, 6)), ivl, fs)
       IN  IF i.fault THEN Outcome(cfgs, vl, ivl, fs, SIGSEGV_STATUS)
           ELSE IF i.r = 0 - ENOMEM THEN Outcome(cfgs, vl, i.ifcfg_vlans, i.files, ENOMEM)
           ELSE Outcome(cfgs, vl, i.ifcfg_vlans, i.files, -1)
  ELSE AfterParse(CmdlineSelect(tok, head, vl), cfgs, ivl, fs)

(* lines 701-746: one token of the command line *)
DispatchToken(tok, head, all, n, cfgs, vl, ivl, fs) ==
  IF startswith(tok, Chars("ifcfg="))
  THEN LET i == parse_ifcfg_arg(n, StripQuotes(Drop(tok, 6)), ivl, fs)
       IN  IF i.fault THEN Outcome(cfgs, vl, ivl, fs, SIGSEGV_STATUS)
           ELSE IF i.r = 0 - ENOMEM THEN Outcome(cfgs, vl, i.ifcfg_vlans, i.files, ENOMEM)
           ELSE Outcome(cfgs, vl, i.ifcfg_vlans, i.files, -1)
  ELSE IF all THEN AfterParse(CmdlineSelect(tok, head, vl), cfgs, ivl, fs)
  ELSE Outcome(cfgs, vl, ivl, fs, -1)

(* lines 593-616: one retained line of the configuration file *)
DispatchLine(ln, n, cfgs, vl, ivl, fs) ==
  IF startswith(ln, Chars("ifcfg="))
  THEN LET i == parse_ifcfg_arg(n, Drop(ln, 6), ivl, fs)
       IN  IF i.fault THEN Outcome(cfgs, vl, ivl, fs, SIGSEGV_STATUS)
           ELSE IF i.r < 0 THEN Outcome(cfgs, vl, i.ifcfg_vlans, i.files, 0 - i.r)
           ELSE Outcome(merge_configs(EmptyCfg, cfgs).configs, vl, i.ifcfg_vlans, i.files, -1)
  ELSE AfterParse(FileSelect(ln, vl), cfgs, ivl, fs)

(* does main count the token as an entry (nr++) *)
CountsAsEntry(tok, head, all) ==
  \/ startswith(tok, Chars("ifcfg="))
  \/ all /\ \/ \E p \in {"ip=", "nameserver=", "rd.peerdns=", "rd.route="} : startswith(tok, Chars(p))
            \/ startswith(head, Chars("vlan="))

(* lines 691-699: the next place at which the scan cuts a token: the last  *)
(* character of the line, or a space outside quotes                        *)
RECURSIVE NextSplit(_, _, _)
NextSplit(L, i, q) ==
  LET q2 == IF L[i] = "\"" THEN ~q ELSE q
  IN  IF i = Len(L) \/ (L[i] = " " /\ ~q2) THEN [i |-> i, q |-> q2]
      ELSE NextSplit(L, i + 1, q2)

TokenAt(L, from, i) == SubSeq(L, from, IF L[i] = " " THEN i - 1 ELSE i)

(* the C string at the start of the line buffer once the first cut is made *)
LineHead(L) == TokenAt(L, 1, NextSplit(L, 1, FALSE).i)

(* the state after a dispatch. The ifcfg= path opens its files while it    *)
(* parses: where fopen fails write_network_file returns -errno before it   *)
(* has written anything (ifcfg.c lines 537-544), and parse_ifcfg_arg       *)
(* returns 0 all the same (lines 786-790)                                  *)
Apply(o) ==
  /\ configs' = o.configs
  /\ vlans' = o.vlans
  /\ ifcfg_vlans' = o.ifcfg_vlans
  /\ files' = IF outdir_ok THEN o.files ELSE files
  /\ exit_code' = o.exit
  /\ pc' = IF o.exit = -1 THEN "parse" ELSE "done"

(* The block of getline (lines 492-493, 581). get_vlan_id stores the       *)
(* pointer it is given, "vlans[nr_vlanids].name = vlan_name" (line 441),   *)
(* and parse_vlan_arg is given line + 5: in file mode every stored name is *)
(* the C string at byte 6 of the block for as long as the block stays      *)
(* where it is.                                                            *)
NUL == "\\0"

NameAt == 6

(* the C string that starts at byte i of buf *)
CStrAt(buf, i) ==
  IF i > Len(buf) THEN <<>>
  ELSE SubSeq(buf, i, (IF FirstIn(buf, {NUL}, i) = 0 THEN Len(buf) + 1
                       ELSE FirstIn(buf, {NUL}, i)) - 1)

(* getline: the line and its NUL over the first bytes of the block, the    *)
(* bytes behind them stay                                                  *)
GetLine(buf, raw) == raw \o <<NUL>> \o Drop(buf, Len(raw) + 1)

(* lines 590-591: "if (line[nread-1] == '\n') line[nread-1] = '\0';"       *)
StripNewline(buf, nread) == IF buf[nread] = "\n" THEN [buf EXCEPT ![nread] = NUL] ELSE buf

(* the sub-parsers cut the line in place: strsep puts a NUL over each ":"  *)
(* it stops at, which is every ":" of a directive without brackets and     *)
(* without a MAC address                                                   *)
CutFields(buf, nread) ==
  [i \in 1..Len(buf) |-> IF i <= nread /\ buf[i] = ":" THEN NUL ELSE buf[i]]

(* the bytes of the block after the turn of the loop for the line raw *)
BlockAfter(buf, raw) ==
  LET ln == IF raw[Len(raw)] = "\n" THEN SubSeq(raw, 1, Len(raw) - 1) ELSE raw
  IN  IF raw[1] \in {"#", "\n"} THEN GetLine(buf, raw)
      ELSE IF \E p \in {"ip=", "nameserver=", "rd.peerdns=", "rd.route=", "vlan="} :
                startswith(ln, Chars(p))
      THEN CutFields(StripNewline(GetLine(buf, raw), Len(raw)), Len(raw))
      ELSE StripNewline(GetLine(buf, raw), Len(raw))

(* the names of the entries b of the table read through their pointers *)
ReadNames(vl, b, buf) ==
  [i \in 1..Len(vl) |-> IF i \in b THEN [vl[i] EXCEPT !.name = CStrAt(buf, NameAt)] ELSE vl[i]]

(* the end of one turn for the line raw with the outcome o of its          *)
(* dispatch. A line that does not fit the block makes getline realloc it:  *)
(* the block grows where it is, or it moves and the names stored so far    *)
(* point into freed memory (here: the bytes they last had).                *)
FileTurn(raw, o) ==
  /\ linebuf' = BlockAfter(linebuf, raw)
  /\ \/ bound' = bound \cup ((Len(vlans) + 1)..Len(o.vlans))
     \/ /\ bound # {}
        /\ Len(raw) + 1 > Len(linebuf)
        /\ bound' = (Len(vlans) + 1)..Len(o.vlans)
  /\ Apply([o EXCEPT !.vlans = ReadNames(o.vlans, bound', linebuf')])

(* one turn of the getline loop, lines 581-617 *)
FileLine ==
  /\ pc = "parse"
  /\ mode = "file"
  /\ line_count < Len(cfgfile)
  /\ LET raw == cfgfile[line_count + 1]
         ln == IF raw[Len(raw)] = "\n" THEN SubSeq(raw, 1, Len(raw) - 1) ELSE raw
     IN  FileTurn(raw, IF raw[1] \in {"#", "\n"}
                       THEN Outcome(configs, vlans, ifcfg_vlans, files, -1)
                       ELSE DispatchLine(ln, line_count + 1, configs, vlans, ifcfg_vlans, files))
  /\ line_count' = line_count + 1
  /\ UNCHANGED <<mode, parse_all, cfgfile, line, cp, in_quote, nr, outdir_ok, history>>
  /\ UNCHANGED efi_state

(* the scan of the command line up to and including the next token,        *)
(* lines 691-750                                                           *)
CmdlineToken ==
  /\ pc = "parse"
  /\ mode \in {"args", "proc"}
  /\ cp <= Len(line)
  /\ LET sp == NextSplit(line, cp, in_quote)
         tok == TokenAt(line, cp, sp.i)
         head == LineHead(line)
     IN  /\ Apply(DispatchToken(tok, head, parse_all, nr, configs, vlans, ifcfg_vlans, files))
         /\ nr' = IF CountsAsEntry(tok, head, parse_all) THEN nr + 1 ELSE nr
         /\ cp' = sp.i + 1
         /\ in_quote' = sp.q
  /\ UNCHANGED <<mode, parse_all, cfgfile, line_count, line, linebuf, bound,
                 outdir_ok, history>>
  /\ UNCHANGED efi_state

(* fopen(path, "w") and the writes, for a sequence of [name, lines] *)
RECURSIVE WriteFiles(_, _)
WriteFiles(fs, out) ==
  IF out = <<>> THEN fs
  ELSE WriteFiles((out[1].name :> out[1].lines) @@ fs, Tail(out))

NetworkFiles(cfgs, vl) ==
  [i \in 1..Len(cfgs) |-> [name |-> IpFileName(i), lines |-> write_network_config(cfgs[i], vl)]]

(* write_netdev_config *)
NetdevFiles(vl) ==
  [i \in 1..Len(vl) |-> [name |-> NetdevFileName(vl[i]), lines |-> write_netdev_file(vl[i])]]

InputDone ==
  IF mode = "file" THEN line_count = Len(cfgfile) ELSE cp > Len(line)

(* write_network_config hands the NULL of map_dracut_to_networkd to "%s":  *)
(* the first record in the table for which it does                         *)
PrintsNull(cfg) == ~isempty(cfg.autoconf) /\ map_dracut_to_networkd(cfg.autoconf) = "NULL"

FirstNull(cfgs) ==
  IF \E i \in 1..Len(cfgs) : PrintsNull(cfgs[i])
  THEN CHOOSE i \in 1..Len(cfgs) : PrintsNull(cfgs[i]) /\ \A j \in 1..(i - 1) : ~PrintsNull(cfgs[j])
  ELSE 0

(* every file written and closed *)
EmitAll ==
  /\ outdir_ok
  /\ files' = WriteFiles(WriteFiles(files, NetworkFiles(configs, vlans)), NetdevFiles(vlans))
  /\ exit_code' = 0

(* the C library does not print "(null)" but reads through the pointer:    *)
(* the files before are complete, the open one has nothing flushed to it   *)
EmitCrash ==
  /\ outdir_ok
  /\ FirstNull(configs) # 0
  /\ files' = WriteFiles(WriteFiles(files, SubSeq(NetworkFiles(configs, vlans), 1,
                                                  FirstNull(configs) - 1)),
                         <<[name |-> IpFileName(FirstNull(configs)), lines |-> <<>>]>>)
  /\ exit_code' = SIGSEGV_STATUS

(* no file can be opened: the value of write_network_config is dropped     *)
(* (line 754), the one of write_netdev_config is the exit status (lines    *)
(* 756-764)                                                                *)
EmitFail ==
  /\ ~outdir_ok
  /\ files' = files
  /\ exit_code' = IF nr_vlanids > 0 THEN EACCES ELSE 0

(* lines 753-767: the files of the merge table and of the VLAN table *)
Emit ==
  /\ pc = "parse"
  /\ InputDone
  /\ (EmitAll \/ EmitCrash \/ EmitFail)
  /\ pc' = "done"
  /\ UNCHANGED <<mode, parse_all, cfgfile, line_count, line, cp, in_quote, nr,
                 configs, vlans, ifcfg_vlans, linebuf, bound, outdir_ok, history>>
  /\ UNCHANGED efi_state

(* the generator is started again with the same arguments on the output    *)
(* directory it has left                                                   *)
Rerun ==
  /\ pc = "done"
  /\ exit_code = 0
  /\ Len(history) < MaxReruns
  /\ history' = Append(history, files)
  /\ line_count' = 0
  /\ cp' = 1
  /\ in_quote' = FALSE
  /\ nr' = 1
  /\ configs' = <<>>
  /\ vlans' = <<>>
  /\ ifcfg_vlans' = <<>>
  /\ linebuf' = <<>>
  /\ bound' = {}
  /\ pc' = "parse"
  /\ exit_code' = -1
  /\ UNCHANGED <<mode, parse_all, cfgfile, line, files, outdir_ok>>
  /\ UNCHANGED efi_state

Next == FileLine \/ CmdlineToken \/ Emit

Spec == Init /\ [][Next]_vars

SpecMask == InitMask /\ [][Next]_vars

NextRerun == Next \/ Rerun

SpecRerun == InitRerun /\ [][NextRerun]_vars

SpecIO == InitIO /\ [][Next]_vars

(* ----------------------------------------------------------------------- *)
(* The boot-source resolver (lib/efivars.c)                                *)
(* ----------------------------------------------------------------------- *)
ERANGE == 34

ENODEV == 19

EOPNOTSUPP == 95

DT_HARDWARE == 1

DT_MESSAGING == 3

DT_MEDIA == 4

DT_END == 127

DST_HARD_DRIVE == 1

DST_MEDIA_FILE == 4

DST_MSG_MAC_ADDR == 11

DST_MSG_IPV4 == 12

DST_MSG_URI == 24

(* the content of a variable of efivarfs, after its four attribute bytes:  *)
(* no such file, a file that cannot be opened, or the bytes                *)
Absent == [kind |-> "absent", bytes |-> <<>>]

Unreadable == [kind |-> "error", bytes |-> <<>>]

Data(b) == [kind |-> "data", bytes |-> b]

(* a Boot#### variable: the six bytes of attributes and length, the       *)
(* description in UTF-16 with its terminator, the bytes of the device path *)
BootEntry(desc, path) == Data(<<0, 0, 0, 0, 0, 0>> \o desc \o path)

(* the characters of the code units in use *)
AsciiChar == (47 :> "/") @@ (92 :> "\\") @@ (65 :> "A") @@ (66 :> "B") @@ (97 :> "a") @@
             (98 :> "b") @@ (101 :> "e") @@ (104 :> "h") @@ (120 :> "x") @@ (127 :> "^?")

tolower(c) == IF c = "A" THEN "a" ELSE IF c = "B" THEN "b" ELSE c

(* utf16_to_utf8: the code units up to the first that is 0; one that is    *)
(* not ASCII is -ERANGE, an odd number of bytes -EINVAL; "\\" becomes "/"   *)
RECURSIVE BitOr(_, _, _)
BitOr(a, b, bits) ==
  IF bits = 0 THEN 0
  ELSE (IF a % 2 = 1 \/ b % 2 = 1 THEN 1 ELSE 0) + 2 * BitOr(a \div 2, b \div 2, bits - 1)

(* the low byte taken for the whole code unit *)
CodeUnitLowByte(lo, hi) == lo

(* "uint16_t c = data[i*2] | (data[(i*2) + 1] << 8)" with data of type     *)
(* char, a signed type: a byte of 128 or more is a negative int, whose     *)
(* high bits are ones, and the 16 low bits of the result are kept          *)
CodeUnit(lo, hi) ==
  BitOr(IF lo >= 128 THEN 65280 + lo ELSE lo, hi * 256, 16)

RECURSIVE Utf16Loop(_, _, _)
Utf16Loop(data, i, out) ==
  IF i > Len(data) \div 2 THEN [r |-> 0, str |-> out]
  ELSE LET c == CodeUnit(data[2 * i - 1], data[2 * i])
       IN  IF c = 0 THEN [r |-> 0, str |-> out]
           ELSE IF c < 128
           THEN Utf16Loop(data, i + 1, Append(out, IF c = 92 THEN "/" ELSE AsciiChar[c]))
           ELSE [r |-> 0 - ERANGE, str |-> NULL]

utf16_to_utf8(data) ==
  IF Len(data) % 2 # 0 THEN [r |-> 0 - EINVAL, str |-> NULL]
  ELSE Utf16Loop(data, 1, <<>>)

(* read_efi_var: -errno of open, or the payload *)
read_efi_var(fs, name) ==
  LET v == IF name \in DOMAIN fs.vars THEN fs.vars[name] ELSE Absent
  IN  IF v.kind = "absent" THEN [r |-> 0 - ENOENT, v |-> v]
      ELSE IF v.kind = "error" THEN [r |-> 0 - EACCES, v |-> v]
      ELSE [r |-> 0, v |-> v]

read_efi_var_string(fs, name) ==
  LET d == read_efi_var(fs, name)
  IN  IF d.r < 0 THEN [r |-> d.r, str |-> NULL] ELSE utf16_to_utf8(d.v.bytes)

(* "r < 0 && r != -ENOENT" *)
Fatal(r) == r < 0 /\ r # 0 - ENOENT

(* efi_boot_systemd_stub: its value and the record as it leaves it *)
efi_boot_systemd_stub(fs, res) ==
  LET entry == read_efi_var_string(fs, <<"LoaderEntrySelected">>)
      url == read_efi_var_string(fs, <<"LoaderDeviceURL">>)
      dev == read_efi_var_string(fs, <<"LoaderDevicePartUUID">>)
      img == IF dev.str = NULL THEN [r |-> 0, str |-> NULL]
             ELSE read_efi_var_string(fs, <<"LoaderImageIdentifier">>)
      loader_dev == IF dev.str = NULL THEN NULL
                    ELSE <<"/dev/disk/by-partuuid/">> \o
                         [i \in 1..Len(dev.str) |-> tolower(dev.str[i])]
  IN  IF Fatal(entry.r) THEN [r |-> entry.r, res |-> res]
      ELSE IF Fatal(url.r) THEN [r |-> url.r, res |-> res]
      ELSE IF Fatal(dev.r) THEN [r |-> dev.r, res |-> res]
      ELSE IF Fatal(img.r) THEN [r |-> img.r, res |-> res]
      ELSE IF isempty(url.str) /\ isempty(loader_dev) /\ isempty(img.str)
      THEN [r |-> 0 - ENOENT, res |-> res]
      ELSE [r |-> 0, res |-> [res EXCEPT !.url = url.str, !.device = loader_dev,
                                         !.image = img.str, !.entry = entry.str]]

(* "%02x" of a byte, and the text of a GUID: data1, data2 and data3 are    *)
(* little-endian integers, data4 is eight bytes                            *)
HexChars == <<"0", "1", "2", "3", "4", "5", "6", "7", "8", "9", "a", "b", "c", "d", "e", "f">>

Hex2(b) == <<HexChars[(b \div 16) + 1], HexChars[(b % 16) + 1]>>

GuidText(g) ==
  Hex2(g[4]) \o Hex2(g[3]) \o Hex2(g[2]) \o Hex2(g[1]) \o <<"-">> \o
  Hex2(g[6]) \o Hex2(g[5]) \o <<"-">> \o Hex2(g[8]) \o Hex2(g[7]) \o <<"-">> \o
  Hex2(g[9]) \o Hex2(g[10]) \o <<"-">> \o
  Hex2(g[11]) \o Hex2(g[12]) \o Hex2(g[13]) \o Hex2(g[14]) \o Hex2(g[15]) \o Hex2(g[16])

(* the bytes of a node: type, sub-type, the length it declares in two     *)
(* bytes, and what follows its header                                      *)
Node(t, st, len, body) == <<t, st, len % 256, len \div 256>> \o body

(* the byte at index i (from 0) of a blob of limit bytes; one at or behind *)
(* limit is whatever lies in memory behind the blob                        *)
ByteAt(data, behind, i) ==
  IF i < Len(data) THEN data[i + 1] ELSE behind[i - Len(data) + 1]

Max(a, b) == IF a >= b THEN a ELSE b

(* "ipv4->RemoteIp[0] ... [3]" all 0, and the index behind the last of     *)
(* them that "&&" came to read; RemoteIp is at 4 in the node's body        *)
RECURSIVE RemoteIpZero(_, _, _, _)
RemoteIpZero(data, behind, at, k) ==
  IF k = 4 THEN [zero |-> TRUE, top |-> at + k]
  ELSE IF ByteAt(data, behind, at + k) # 0 THEN [zero |-> FALSE, top |-> at + k + 1]
  ELSE RemoteIpZero(data, behind, at, k + 1)

(* the loop of parse_device_path with the node header at offset; acc holds *)
(* loader_url, loader_dev, loader_img, pxe_boot and r, and top, the index  *)
(* behind the last byte read so far                                        *)
RECURSIVE PathLoop(_, _, _, _, _)
PathLoop(data, behind, offset, limit, acc) ==
  IF offset >= limit THEN acc
  ELSE LET type == ByteAt(data, behind, offset)
           sub_type == ByteAt(data, behind, offset + 1)
           length == ByteAt(data, behind, offset + 2) + 256 * ByteAt(data, behind, offset + 3)
           body == SubSeq(data, offset + 5, offset + length)
           read(a, n) == [a EXCEPT !.top = Max(a.top, n)]
           next(a) == PathLoop(data, behind, offset + length, limit, a)
       IN  IF type = DT_END /\ sub_type # 0 THEN read(acc, offset + 2)
           ELSE IF length < 4 THEN read(acc, offset + 4)
           ELSE IF offset + length > limit THEN read(acc, offset + 4)
           ELSE IF type = DT_MEDIA /\ sub_type = DST_HARD_DRIVE
           THEN next(IF length >= 42
                     THEN [read(acc, offset + 40) EXCEPT
                             !.dev = <<"/dev/disk/by-partuuid/">> \o
                                     GuidText(SubSeq(data, offset + 25, offset + 40))]
                     ELSE read(acc, offset + 4))
           ELSE IF type = DT_MEDIA /\ sub_type = DST_MEDIA_FILE
           THEN LET u == utf16_to_utf8(body)
                IN  IF u.r < 0 THEN [read(acc, offset + length) EXCEPT !.r = u.r]
                    ELSE next([read(acc, offset + length) EXCEPT !.img = u.str])
           ELSE IF type = DT_MESSAGING /\ sub_type = DST_MSG_URI
           THEN LET u == utf16_to_utf8(body)
                IN  IF u.r < 0 THEN [read(acc, offset + length) EXCEPT !.r = u.r]
                    ELSE next([read(acc, offset + length) EXCEPT !.url = u.str])
           ELSE IF type = DT_MESSAGING /\ sub_type = DST_MSG_MAC_ADDR
           THEN next([read(acc, offset + 4) EXCEPT !.pxe = TRUE])
           ELSE IF type = DT_MESSAGING /\ sub_type = DST_MSG_IPV4
           THEN LET ip == RemoteIpZero(data, behind, offset + 8, 0)
                IN  next([read(acc, ip.top) EXCEPT !.pxe = acc.pxe \/ ip.zero])
           ELSE next(read(acc, offset + 4))

(* parse_device_path over the limit bytes of data, without debug output:   *)
(* its value, the record as it leaves it, and top                          *)
parse_device_path(data, behind, res) ==
  LET a == PathLoop(data, behind, 0, Len(data),
                    [url |-> NULL, dev |-> NULL, img |-> NULL, pxe |-> FALSE, r |-> 0,
                     top |-> 0])
  IN  IF a.r < 0 THEN [r |-> a.r, res |-> res, top |-> a.top]
      ELSE IF isempty(a.url) /\ isempty(a.dev) /\ isempty(a.img) /\ ~a.pxe
      THEN [r |-> 0 - ENOENT, res |-> res, top |-> a.top]
      ELSE [r |-> 0, top |-> a.top,
            res |-> [res EXCEPT !.url = a.url, !.device = a.dev, !.image = a.img,
                                !.is_pxe_boot = a.pxe]]

(* the index taken as the plain little-endian value of the two bytes      *)
BootIndexUnsigned(b0, b1) == b0 + 256 * b1

(* "uint16_t boot_index = data[0] | (data[1] << 8)", data of type char     *)
BootIndex(b0, b1) == CodeUnit(b0, b1)

(* "Boot%04X" of the index in the first two bytes                          *)
HexUpper == <<"0", "1", "2", "3", "4", "5", "6", "7", "8", "9", "A", "B", "C", "D", "E", "F">>

BootName(data) ==
  LET boot_index == BootIndex(data[1], data[2])
  IN  <<"Boot">> \o [i \in 1..4 |-> HexUpper[((boot_index \div (16 ^ (4 - i))) % 16) + 1]]

(* the description of a Boot#### variable: the pairs of bytes behind the    *)
(* first six, up to and with the first pair of zeros                       *)
RECURSIVE DescLoop(_, _)
DescLoop(data, offset) ==
  IF offset + 1 >= Len(data) + 1 THEN <<>>
  ELSE IF data[offset] = 0 /\ data[offset + 1] = 0 THEN <<0, 0>>
  ELSE <<data[offset], data[offset + 1]>> \o DescLoop(data, offset + 2)

(* "data + offset, size - offset": the bytes behind the description        *)
PathOf(data) == SubSeq(data, 7 + Len(DescLoop(data, 7)), Len(data))

(* efi_boot_current: BootCurrent names the Boot#### variable whose device  *)
(* path is parsed                                                          *)
efi_boot_current(fs, behind, res) ==
  LET cur == read_efi_var(fs, <<"BootCurrent">>)
      var == read_efi_var(fs, BootName(cur.v.bytes))
      desc == DescLoop(var.v.bytes, 7)
      str == utf16_to_utf8(desc)
      named == IF desc = <<>> THEN res ELSE [res EXCEPT !.entry = str.str]
      p == parse_device_path(PathOf(var.v.bytes), behind, named)
  IN  IF cur.r < 0 THEN [r |-> cur.r, res |-> res]
      ELSE IF Len(cur.v.bytes) # 2 THEN [r |-> 0 - ENOENT, res |-> res]
      ELSE IF var.r < 0 THEN [r |-> var.r, res |-> res]
      ELSE IF Len(var.v.bytes) < 6 THEN [r |-> 0 - EINVAL, res |-> res]
      ELSE IF desc # <<>> /\ str.r < 0 THEN [r |-> str.r, res |-> res]
      ELSE IF PathOf(var.v.bytes) = <<>> THEN [r |-> 0 - ENOENT, res |-> named]
      ELSE [r |-> p.r, res |-> p.res]

(* efi_get_default_boot_partition: the device of the first entry of        *)
(* BootOrder                                                               *)
efi_get_default_boot_partition(fs, behind) ==
  LET ord == read_efi_var(fs, <<"BootOrder">>)
      var == read_efi_var(fs, BootName(ord.v.bytes))
      p == parse_device_path(PathOf(var.v.bytes), behind, EmptyEfi)
  IN  IF ord.r < 0 THEN [r |-> ord.r, part |-> NULL]
      ELSE IF Len(ord.v.bytes) < 2 THEN [r |-> 0 - ENOENT, part |-> NULL]
      ELSE IF var.r < 0 THEN [r |-> var.r, part |-> NULL]
      ELSE IF Len(var.v.bytes) < 6 THEN [r |-> 0 - EINVAL, part |-> NULL]
      ELSE IF PathOf(var.v.bytes) = <<>> THEN [r |-> 0 - ENOENT, part |-> NULL]
      ELSE IF p.r < 0 /\ p.r # 0 - ENODEV THEN [r |-> p.r, part |-> NULL]
      ELSE IF isempty(p.res.device) THEN [r |-> 0 - ENODEV, part |-> NULL]
      ELSE [r |-> 0, part |-> p.res.device]

(* the loader-stub strategy run on whatever error, not only on "not found" *)
AfterStubAnyError(r) == IF r < 0 THEN "current" ELSE "partition"

(* efi_get_boot_source, lines 622-625: what follows the loader-stub        *)
(* strategy with the value r                                               *)
AfterStub(r) ==
  IF r = 0 - ENOENT THEN "current" ELSE IF r < 0 THEN "returned" ELSE "partition"

(* the bytes of a text in UTF-16 *)
RECURSIVE Utf16(_)
Utf16(units) == IF units = <<>> THEN <<>> ELSE <<units[1], 0>> \o Utf16(Tail(units))

EndNode == Node(DT_END, 255, 4, <<>>)

Signature == <<1, 2, 3, 4, 5, 6, 7, 8, 9, 10, 11, 12, 13, 14, 15, 16>>

Zeros(n) == [i \in 1..n |-> 0]

(* the nodes of a hard drive (partition number, start and size, the        *)
(* signature, format and type), of a MAC address and of IPv4 with the      *)
(* RemoteIp given                                                          *)
HardDriveNode == Node(DT_MEDIA, DST_HARD_DRIVE, 42, Zeros(20) \o Signature \o <<2, 2>>)

MacNode == Node(DT_MESSAGING, DST_MSG_MAC_ADDR, 37, Zeros(33))

Ipv4Node(remote) == Node(DT_MESSAGING, DST_MSG_IPV4, 27, Zeros(4) \o remote \o Zeros(15))

(* the path of a disk boot; with it those of an HTTP boot and of a PXE     *)
(* boot and an empty path                                                  *)
DiskPath ==
  Node(DT_HARDWARE, 1, 6, <<0, 0>>) \o HardDriveNode \o
  Node(DT_MEDIA, DST_MEDIA_FILE, 8, Utf16(<<92, 120>>)) \o EndNode

DevicePaths ==
  { DiskPath,
    MacNode \o Node(DT_MESSAGING, DST_MSG_URI, 6, Utf16(<<104>>)) \o EndNode,
    MacNode \o Ipv4Node(Zeros(4)) \o EndNode,
    EndNode }

(* what may lie in memory behind a device path                             *)
Behind == {[i \in 1..8 |-> b] : b \in {0, 255}}

(* the EFI variables: what the firmware and the boot loader may have left  *)
Efivarfs ==
  { [access |-> 0,
     vars |-> (<<"LoaderEntrySelected">> :> entry) @@ (<<"LoaderDeviceURL">> :> url) @@
              (<<"LoaderDevicePartUUID">> :> part) @@ (<<"LoaderImageIdentifier">> :> img) @@
              (<<"BootCurrent">> :> cur) @@ (<<"BootOrder">> :> ord) @@
              (<<"Boot", "0", "0", "0", "1">> :> boot) @@
              (<<"Boot", "0", "0", "0", "2">> :> disk)] :
      entry \in {Absent, Data(Utf16(<<101>>))},
      url \in {Absent, Unreadable, Data(Utf16(<<104>>))},
      part \in {Absent, Unreadable, Data(Utf16(<<65, 66>>))},
      img \in {Absent, Data(Utf16(<<92, 120>>))},
      cur \in {Absent, Data(<<1, 0>>), Data(<<1>>)},
      ord \in {Absent, Data(<<1, 0>>), Data(<<2, 0>>)},
      boot \in {Absent} \cup {BootEntry(Utf16(<<101, 0>>), p) : p \in DevicePaths},
      disk \in {Absent, BootEntry(Utf16(<<97, 0>>), DiskPath)} }
  \cup { [access |-> 0 - e, vars |-> <<>>] : e \in {ENOENT, EACCES} }

InitEfi ==
  /\ InitTables
  /\ outdir_ok = TRUE
  /\ parse_all = FALSE
  /\ InitInput("args", <<>>)
  /\ efivarfs \in Efivarfs
  /\ efi_pc = "start"
  /\ efi = EmptyEfi
  /\ efi_r = 0
  /\ efi_tried = {}

(* lines 605-617: access(EFIVARS_PATH) and calloc; in every step a return  *)
(* with an error cleans the record up                                      *)
EfiStart ==
  /\ efi_pc = "start"
  /\ IF efivarfs.access # 0
     THEN /\ efi_pc' = "returned"
          /\ efi_r' = IF efivarfs.access = 0 - ENOENT THEN 0 - EOPNOTSUPP ELSE efivarfs.access
     ELSE /\ efi_pc' = "stub"
          /\ efi_r' = efi_r
  /\ efi' = EmptyEfi
  /\ UNCHANGED <<efivarfs, efi_tried>>
  /\ UNCHANGED networkd_state

(* lines 619-625: the loader-stub strategy and the choice that follows *)
EfiStub ==
  /\ efi_pc = "stub"
  /\ LET s == efi_boot_systemd_stub(efivarfs, efi)
     IN  /\ efi' = IF Fatal(s.r) THEN EmptyEfi ELSE s.res
         /\ efi_r' = s.r
         /\ efi_pc' = AfterStub(s.r)
  /\ efi_tried' = efi_tried \cup {"stub"}
  /\ UNCHANGED efivarfs
  /\ UNCHANGED networkd_state

(* lines 622-625: the BootCurrent strategy *)
EfiCurrent ==
  /\ efi_pc = "current"
  /\ \E behind \in Behind :
     LET c == efi_boot_current(efivarfs, behind, efi)
     IN  /\ efi' = IF c.r < 0 THEN EmptyEfi ELSE c.res
         /\ efi_r' = c.r
         /\ efi_pc' = IF c.r < 0 THEN "returned" ELSE "partition"
  /\ efi_tried' = efi_tried \cup {"current"}
  /\ UNCHANGED efivarfs
  /\ UNCHANGED networkd_state

(* lines 627-633: the default boot partition, and the return *)
EfiPartition ==
  /\ efi_pc = "partition"
  /\ \E behind \in Behind :
     LET d == efi_get_default_boot_partition(efivarfs, behind)
     IN  /\ efi' = IF d.r < 0 THEN EmptyEfi ELSE [efi EXCEPT !.def_efi_partition = d.part]
         /\ efi_r' = IF d.r < 0 THEN d.r ELSE 0
  /\ efi_pc' = "returned"
  /\ efi_tried' = efi_tried \cup {"partition"}
  /\ UNCHANGED efivarfs
  /\ UNCHANGED networkd_state

NextEfi == EfiStart \/ EfiStub \/ EfiCurrent \/ EfiPartition

SpecEfi == InitEfi /\ [][NextEfi]_vars

(* the resolver over a store whose only variable is LoaderDeviceURL, its   *)
(* payload any sequence of up to MaxBytes of these bytes                   *)
MaxBytes == 6

PayloadBytes == {0, 92, 127, 128, 255}

RECURSIVE Payloads(_)
Payloads(n) ==
  IF n = 0 THEN {<<>>}
  ELSE Payloads(n - 1) \cup {Append(d, b) : d \in {x \in Payloads(n - 1) : Len(x) = n - 1},
                                            b \in PayloadBytes}

InitUtf16 ==
  /\ InitTables
  /\ outdir_ok = TRUE
  /\ parse_all = FALSE
  /\ InitInput("args", <<>>)
  /\ \E d \in Payloads(MaxBytes) :
       efivarfs = [access |-> 0, vars |-> (<<"LoaderDeviceURL">> :> Data(d))]
  /\ efi_pc = "start"
  /\ efi = EmptyEfi
  /\ efi_r = 0
  /\ efi_tried = {}

SpecUtf16 == InitUtf16 /\ [][NextEfi]_vars

(* the resolver over a store without loader variables, where BootCurrent   *)
(* names Boot0001 and BootOrder the disk entry Boot0002; the device path   *)
(* of Boot0001 is made of up to MaxNodes of these pieces: nodes as long as *)
(* they say, nodes that declare four bytes or more than there are, an end  *)
(* node with the sub-type 0, and stray bytes                               *)
MaxNodes == 3

PathPieces ==
  { EndNode,
    Node(DT_END, 0, 4, <<>>),
    Node(DT_MESSAGING, DST_MSG_URI, 6, Utf16(<<104>>)),
    Node(DT_MEDIA, DST_MEDIA_FILE, 8, Utf16(<<92, 120>>)),
    Node(DT_MESSAGING, DST_MSG_URI, 40, Utf16(<<104>>)),
    HardDriveNode,
    Node(DT_MEDIA, DST_HARD_DRIVE, 4, <<>>),
    MacNode,
    Node(DT_MESSAGING, DST_MSG_MAC_ADDR, 4, <<>>),
    Ipv4Node(<<10, 0, 0, 1>>),
    Node(DT_MESSAGING, DST_MSG_IPV4, 4, <<>>),
    <<DT_END>>,
    <<DT_MESSAGING, DST_MSG_IPV4, 4>> }

RECURSIVE Paths(_)
Paths(n) ==
  IF n = 0 THEN {<<>>} ELSE Paths(n - 1) \cup {d \o piece : d \in Paths(n - 1), piece \in PathPieces}

InitPath ==
  /\ InitTables
  /\ outdir_ok = TRUE
  /\ parse_all = FALSE
  /\ InitInput("args", <<>>)
  /\ \E path \in Paths(MaxNodes) :
       efivarfs = [access |-> 0,
                   vars |-> (<<"BootCurrent">> :> Data(<<1, 0>>)) @@
                            (<<"BootOrder">> :> Data(<<2, 0>>)) @@
                            (<<"Boot", "0", "0", "0", "1">> :> BootEntry(Utf16(<<101, 0>>), path)) @@
                            (<<"Boot", "0", "0", "0", "2">> :> BootEntry(Utf16(<<97, 0>>), DiskPath))]
  /\ efi_pc = "start"
  /\ efi = EmptyEfi
  /\ efi_r = 0
  /\ efi_tried = {}

SpecPath == InitPath /\ [][NextEfi]_vars

(* the resolver over a store where BootCurrent and BootOrder hold any two  *)
(* of these bytes, and the variables Boot#### of the little-endian values  *)
(* of those bytes are disk entries                                         *)
IndexBytes == {0, 1, 127, 128, 255}

Hex4(n) == [i \in 1..4 |-> HexUpper[((n \div (16 ^ (4 - i))) % 16) + 1]]

InitIndex ==
  /\ InitTables
  /\ outdir_ok = TRUE
  /\ parse_all = FALSE
  /\ InitInput("args", <<>>)
  /\ \E b0 \in IndexBytes, b1 \in IndexBytes, c0 \in IndexBytes, c1 \in IndexBytes :
       efivarfs = [access |-> 0,
                   vars |-> (<<"BootCurrent">> :> Data(<<b0, b1>>)) @@
                            (<<"BootOrder">> :> Data(<<c0, c1, 9, 0>>)) @@
                            ((<<"Boot">> \o Hex4(b0 + 256 * b1)) :> BootEntry(Utf16(<<101, 0>>), DiskPath)) @@
                            ((<<"Boot">> \o Hex4(c0 + 256 * c1)) :> BootEntry(Utf16(<<97, 0>>), DiskPath))]
  /\ efi_pc = "start"
  /\ efi = EmptyEfi
  /\ efi_r = 0
  /\ efi_tried = {}

SpecIndex == InitIndex /\ [][NextEfi]_vars

(* ----------------------------------------------------------------------- *)
(* What the next step is about                                             *)
(* ----------------------------------------------------------------------- *)
CmdStep == pc = "parse" /\ mode \in {"args", "proc"} /\ cp <= Len(line)

FileStep == pc = "parse" /\ mode = "file" /\ line_count < Len(cfgfile)

(* the token the next CmdlineToken step dispatches *)
CurTok == TokenAt(line, cp, NextSplit(line, cp, in_quote).i)

(* the line the next FileLine step reads, without its newline *)
CurRaw == cfgfile[line_count + 1]

CurLine == IF CurRaw[Len(CurRaw)] = "\n" THEN SubSeq(CurRaw, 1, Len(CurRaw) - 1) ELSE CurRaw

Retained == CurRaw[1] \notin {"#", "\n"}

Prefixes == {"ifcfg=", "ip=", "nameserver=", "rd.peerdns=", "rd.route=", "vlan="}

HasPrefix(t, p) == startswith(t, Chars(p))

KnownPrefix(t) == \E p \in Prefixes : HasPrefix(t, p)

(* the sub-parser result of the token or line of the next step *)
CurParse ==
  IF mode = "file" THEN FileSelect(CurLine, vlans)
  ELSE CmdlineSelect(CurTok, LineHead(line), vlans)

(* the ids of a VLAN table, in the order of its entries (the names are     *)
(* pointers, in file mode into the line buffer)                            *)
VlanIds(vl) == [i \in 1..Len(vl) |-> vl[i].id]

(* the next step hands a record to merge_configs *)
MergeStep ==
  \/ CmdStep /\ parse_all /\ ~HasPrefix(CurTok, "ifcfg=") /\ ~CurParse.fault /\ CurParse.r = 0
  \/ FileStep /\ Retained /\ ~CurParse.fault /\ CurParse.r = 0

StrFields == {"client_ip", "peer_ip", "gateway", "destination", "hostname", "interface",
              "autoconf", "dns1", "dns2", "ntp", "mtu", "macaddr", "domains"}

IntFields == {"netmask", "use_dns"}

(* field f of record c holds a value *)
FieldSet(c, f) == IF f \in StrFields \cup {"gateway1"} THEN ~isempty(c[f]) ELSE c[f] # 0

(* ----------------------------------------------------------------------- *)
(* C1: on the command line with parse-all, a token rejected with a syntax  *)
(* error is skipped: the run goes on with the next token and the record    *)
(* table and the VLAN table are as if the token had not been there.        *)
(* ----------------------------------------------------------------------- *)
SyntaxRejected ==
  IF HasPrefix(CurTok, "ifcfg=")
  THEN parse_ifcfg_arg(nr, StripQuotes(Drop(CurTok, 6)), ifcfg_vlans, files).r \notin {0, 0 - ENOMEM}
  ELSE KnownPrefix(CurTok) /\ ~CurParse.fault /\ CurParse.r < 0 /\ CurParse.r # 0 - ENOMEM

(* C1: a step on a rejected token leaves pc at "parse" and both tables as  *)
(* they were                                                               *)
C1_RejectedTokenSkipped ==
  [][(CmdStep /\ parse_all /\ SyntaxRejected)
       => (pc' = "parse" /\ configs' = configs /\ vlans' = vlans)]_vars

(* ----------------------------------------------------------------------- *)
(* C2: merge_configs with a record without interface, fewer than 10        *)
(* records stored: if some stored record has an interface, the non-empty   *)
(* fields go into every stored record that has one and nothing is          *)
(* appended; otherwise the record is appended as an anonymous record.      *)
(* ----------------------------------------------------------------------- *)
Named(cfgs) == {i \in 1..Len(cfgs) : cfgs[i].interface # NULL}

CopiedInto(cfg, rec) ==
  /\ \A f \in StrFields \cup IntFields : FieldSet(cfg, f) => rec[f] = cfg[f]
  /\ cfg.vlan1 # 0 => cfg.vlan1 \in {rec.vlan1, rec.vlan2, rec.vlan3}

(* C2: a merge step with a record without interface either fills every    *)
(* stored record that has an interface, or appends one anonymous record    *)
C2_FreeRecordMerge ==
  [][(MergeStep /\ CurParse.cfg.interface = NULL /\ Len(configs) < MAX_INTERFACES)
       => IF Named(configs) # {}
          THEN /\ Len(configs') = Len(configs)
               /\ \A i \in Named(configs) : CopiedInto(CurParse.cfg, configs'[i])
          ELSE /\ Len(configs') = Len(configs) + 1
               /\ SubSeq(configs', 1, Len(configs)) = configs
               /\ configs'[Len(configs')].interface = NULL
               /\ CopiedInto(CurParse.cfg, configs'[Len(configs')])]_vars

(* two stored records with an interface both carry the name server of a    *)
(* later nameserver= directive                                             *)
C2_Witness ==
  /\ Cardinality(Named(configs)) >= 2
  /\ \A i \in Named(configs) : configs[i].dns1 = Drop(TokNameServer, 11)

(* ----------------------------------------------------------------------- *)
(* C3: merge_configs with a record whose interface is that of a stored     *)
(* record: the fields the new record sets are copied over the stored ones, *)
(* the others and every other stored record stay, the count stays.         *)
(* ----------------------------------------------------------------------- *)
Slot(cfg, cfgs) == CHOOSE k \in 1..Len(cfgs) : SameInterface(cfgs[k], cfg)

SameInterfaceStep ==
  /\ MergeStep
  /\ Len(configs) < MAX_INTERFACES
  /\ \E k \in 1..Len(configs) : SameInterface(configs[k], CurParse.cfg)

OthersUnchanged(k) ==
  /\ Len(configs') = Len(configs)
  /\ \A j \in 1..Len(configs) : j # k => configs'[j] = configs[j]

ScalarsCopied(cfg, old, new) ==
  \A f \in StrFields \cup IntFields : new[f] = IF FieldSet(cfg, f) THEN cfg[f] ELSE old[f]

VlanSlots(rec) == <<rec.vlan1, rec.vlan2, rec.vlan3>>

(* the new id in the first slot that is free, if there is one *)
VlanAdded(id, slots) ==
  IF id = 0 \/ \A n \in 1..3 : slots[n] # 0 THEN slots
  ELSE [slots EXCEPT ![CHOOSE n \in 1..3 : slots[n] = 0 /\ \A m \in 1..(n - 1) : slots[m] # 0] = id]

LinesOf(f) == {files[f][k] : k \in 1..Len(files[f])}

IsVlanLine(l) == l # <<>> /\ l[1] \in {"VLAN=", "VLAN=Vlan"}

VlanNameOn(l) == IF l[1] = "VLAN=" THEN Tail(l) ELSE <<"V", "l", "a", "n">> \o Tail(l)

VlanIdIn(name) == DecVal(SubSeq(name, LastNonDigit(name, Len(name)) + 1, Len(name)))

DefinesVlan(f, name) ==
  /\ f[Len(f)] = ".netdev"
  /\ (<<"Name=">> \o name) \in LinesOf(f)
  /\ (<<"Id=">> \o FmtD(VlanIdIn(name))) \in LinesOf(f)

(* C4: after a run that ended well, every VLAN= line of a .network file    *)
(* has its .netdev file                                                    *)
C4_VlanLineHasNetdev ==
  (pc = "done" /\ exit_code = 0)
    => \A f \in DOMAIN files : \A l \in LinesOf(f) :
         (f[Len(f)] = ".network" /\ IsVlanLine(l))
           => \E g \in DOMAIN files : DefinesVlan(g, VlanNameOn(l))

(* ----------------------------------------------------------------------- *)
(* C5: without parse-all the command line leaves the record table and the  *)
(* VLAN table empty: ip=, nameserver=, rd.peerdns=, rd.route= and vlan=    *)
(* tokens change nothing and write nothing, ifcfg= tokens are processed    *)
(* with or without the flag. A line of the configuration file is processed *)
(* with or without the flag.                                               *)
(* ----------------------------------------------------------------------- *)
IfcfgNames == {IfcfgFileName(n) : n \in 1..(MAX_INTERFACES + MaxTokens + 1)} \cup
              {VlanFileName(i) : i \in {Eth0, Eth1}}

RECURSIVE RunTokens(_, _, _, _)
RunTokens(toks, head, cfgs, vl) ==
  IF toks = <<>> THEN [configs |-> cfgs, vlans |-> vl, exit |-> 0]
  ELSE LET o == AfterParse(CmdlineSelect(toks[1], head, vl), cfgs, <<>>, <<>>)
       IN  IF o.exit # -1 THEN [configs |-> o.configs, vlans |-> o.vlans, exit |-> o.exit]
           ELSE RunTokens(Tail(toks), head, o.configs, o.vlans)

EmittedBy(toks) ==
  LET run == RunTokens(toks, toks[1], <<>>, <<>>)
  IN  IF run.exit # 0 THEN <<>>
      ELSE WriteFiles(WriteFiles(<<>>, NetworkFiles(run.configs, run.vlans)),
                      NetdevFiles(run.vlans))

(* the directive parses and names the interface *)
Names(tok, ifc) ==
  LET p == CmdlineSelect(tok, tok, <<>>)
  IN  KnownPrefix(tok) /\ ~HasPrefix(tok, "ifcfg=") /\ ~p.fault /\ p.r = 0 /\ p.cfg.interface = ifc

Reordered(toks, f) == [i \in 1..Len(toks) |-> toks[f[i]]]

(* C6: the files of a run over directives for one interface are the files  *)
(* of a run over the same directives in any other order                    *)
C6_OrderIndependent ==
  (mode = "args" /\ parse_all /\ pc = "done" /\ exit_code = 0
     /\ \E ifc \in {Eth0, Eth1} : \A i \in 1..Len(Split(line, " ")) : Names(Split(line, " ")[i], ifc))
    => \A f \in Permutations(1..Len(Split(line, " "))) :
         EmittedBy(Reordered(Split(line, " "), f)) = files

(* ----------------------------------------------------------------------- *)
(* C7: a record that has to be appended while the table holds 10 records   *)
(* ends the run with the out-of-memory exit status.                        *)
(* ----------------------------------------------------------------------- *)
HasToBeAppended(cfg, cfgs) ==
  IF cfg.interface = NULL THEN Named(cfgs) = {}
  ELSE \A k \in 1..Len(cfgs) : ~SameInterface(cfgs[k], cfg)

(* C7: the step that meets the full table ends the run with ENOMEM         *)
C7_CapacityIsFatal ==
  [][(MergeStep /\ Len(configs) = MAX_INTERFACES /\ HasToBeAppended(CurParse.cfg, configs))
       => (pc' = "done" /\ exit_code' = ENOMEM)]_vars

(* ----------------------------------------------------------------------- *)
(* C8: in the configuration file, a retained line that begins with none of *)
(* the six prefixes.                                                       *)
(* ----------------------------------------------------------------------- *)
UnknownLineStep == FileStep /\ Retained /\ ~KnownPrefix(CurLine)

(* C8 as stated: the line ends the run with a syntax error *)
C8_UnknownLineIsError ==
  [][UnknownLineStep => (pc' = "done" /\ exit_code' > 0)]_vars

(* C8 as the code has it: the line is passed over, the run goes on with the *)
(* next line, no record, no VLAN id and no file changes                    *)
C8_UnknownLineIgnored ==
  [][UnknownLineStep
       => /\ pc' = "parse"
          /\ UNCHANGED <<configs, ifcfg_vlans, files>>
          /\ VlanIds(vlans') = VlanIds(vlans)]_vars

(* a file whose first line is no directive, read to its end, with the      *)
(* record of a later line emitted                                          *)
C8_Witness ==
  /\ mode = "file" /\ pc = "done" /\ exit_code = 0
  /\ Len(cfgfile) >= 2
  /\ cfgfile[1] = TokUnknown \o <<"\n">>
  /\ IpFileName(1) \in DOMAIN files

(* ----------------------------------------------------------------------- *)
(* C9: with parse-all, what is done with a token of the command line       *)
(* depends on its own prefix only: a vlan= token is parsed as a VLAN       *)
(* directive wherever it stands, a token with none of the prefixes is      *)
(* ignored and changes no table.                                           *)
(* ----------------------------------------------------------------------- *)
(* C9: a vlan= token has the effect of parse_vlan_arg, a token with no     *)
(* known prefix has none                                                   *)
C9_DispatchByOwnPrefix ==
  [][(CmdStep /\ parse_all)
       => /\ HasPrefix(CurTok, "vlan=")
               => LET o == AfterParse(parse_vlan_arg(Drop(CurTok, 5), vlans), configs,
                                      ifcfg_vlans, files)
                  IN  configs' = o.configs /\ vlans' = o.vlans /\ exit_code' = o.exit
          /\ ~KnownPrefix(CurTok)
               => (pc' = "parse" /\ UNCHANGED <<configs, vlans>>)]_vars

(* ----------------------------------------------------------------------- *)
(* C10: autoconf none, off, auto6, ibft, link6 and link-local give         *)
(* DHCP=no, on and any DHCP=yes, dhcp DHCP=ipv4, dhcp6 and either6         *)
(* DHCP=ipv6; any other value gives a file without a DHCP= line.           *)
(* ----------------------------------------------------------------------- *)
DhcpWord(a) ==
  IF \E w \in {"none", "off", "auto6", "ibft", "link6", "link-local"} : a = Chars(w) THEN "no"
  ELSE IF \E w \in {"on", "any"} : a = Chars(w) THEN "yes"
  ELSE IF a = Chars("dhcp") THEN "ipv4"
  ELSE IF \E w \in {"dhcp6", "either6"} : a = Chars(w) THEN "ipv6"
  ELSE "none"

(* C10: the DHCP= line of each emitted record with an autoconf value       *)
C10_DhcpLine ==
  (pc = "done" /\ exit_code = 0)
    => \A i \in 1..Len(configs) :
         FieldSet(configs[i], "autoconf")
           => /\ IpFileName(i) \in DOMAIN files
              /\ IF DhcpWord(configs[i].autoconf) # "none"
                 THEN <<"DHCP=", DhcpWord(configs[i].autoconf)>> \in LinesOf(IpFileName(i))
                 ELSE \A l \in LinesOf(IpFileName(i)) : l = <<>> \/ l[1] # "DHCP="

(* ----------------------------------------------------------------------- *)
(* C11: a stored record holds up to two gateways. A gateway merged into a  *)
(* record that has one is kept beside it (gateway and gateway1) and both   *)
(* are written, each in a [Route] section; a gateway merged into a record  *)
(* that has two is a hard error that leaves both as they are.              *)
(* ----------------------------------------------------------------------- *)
GatewaysOf(rec) == {rec[f] : f \in {"gateway", "gateway1"}} \ {NULL}

(* the stored records the record of the next merge step is merged into *)
Targets(cfg, cfgs) ==
  IF cfg.interface = NULL THEN Named(cfgs)
  ELSE {k \in 1..Len(cfgs) : SameInterface(cfgs[k], cfg)}

(* C11: the merge step with a gateway, by the number of gateways stored,   *)
(* and the [Route] sections of a run that ended well                       *)
C11_TwoGateways ==
  [][/\ (MergeStep /\ Len(configs) < MAX_INTERFACES /\ FieldSet(CurParse.cfg, "gateway"))
          => \A k \in Targets(CurParse.cfg, configs) :
               IF Cardinality(GatewaysOf(configs[k])) < 2 /\ ~FieldSet(configs[k], "gateway1")
               THEN GatewaysOf(configs'[k]) = GatewaysOf(configs[k]) \cup {CurParse.cfg.gateway}
               ELSE /\ pc' = "done" /\ exit_code' > 0
                    /\ configs'[k].gateway = configs[k].gateway
                    /\ configs'[k].gateway1 = configs[k].gateway1
     /\ (pc' = "done" /\ exit_code' = 0)
          => \A i \in 1..Len(configs') : \A g \in GatewaysOf(configs'[i]) :
               (<<"Gateway=">> \o g) \in {files'[IpFileName(i)][n] :
                                             n \in 1..Len(files'[IpFileName(i)])}]_vars

(* ----------------------------------------------------------------------- *)
(* C12: the VLAN table holds 10 ids. A declaration with a new id is stored *)
(* whenever fewer than 10 ids are stored, the too-many-VLANs error comes   *)
(* with an 11th id only, and never with an id that is stored.              *)
(* ----------------------------------------------------------------------- *)
(* the next step hands a vlan= directive to parse_vlan_arg *)
VlanStep ==
  \/ FileStep /\ Retained /\ HasPrefix(CurLine, "vlan=")
  \/ CmdStep /\ parse_all /\ HasPrefix(CurTok, "vlan=") /\ HasPrefix(LineHead(line), "vlan=")

(* the name the directive declares *)
DeclaredName == strsep(Drop(IF mode = "file" THEN CurLine ELSE CurTok, 5), {":"}).tok


StoredIds == {vlans[i].id : i \in 1..Len(vlans)}

(* C12: the step on a declaration with a VLAN id in 1..4095, by whether    *)
(* the id is stored and how many ids are                                   *)
C12_VlanCapacity ==
  [][(VlanStep /\ LastNonDigit(DeclaredName, Len(DeclaredName)) > 0
        /\ VlanIdIn(DeclaredName) \in 1..4095)
       => IF VlanIdIn(DeclaredName) \in StoredIds
          THEN VlanIds(vlans') = VlanIds(vlans) /\ exit_code' # ENOMEM
          ELSE IF Cardinality(StoredIds) < VLAN_CAPACITY
          THEN VlanIds(vlans') = Append(VlanIds(vlans), VlanIdIn(DeclaredName))
          ELSE pc' = "done" /\ exit_code' = ENOMEM]_vars

(* ----------------------------------------------------------------------- *)
(* C13: a stored VLAN name is the name its directive gave it               *)
(* ----------------------------------------------------------------------- *)
(* the directives of the input, as main cuts them *)
InputTokens ==
  IF mode = "file"
  THEN {SubSeq(cfgfile[k], 1, Len(cfgfile[k]) - 1) : k \in 1..Len(cfgfile)}
  ELSE LET toks == Split(line, " ") IN {toks[k] : k \in 1..Len(toks)}

(* the vlan= directives that main hands to parse_vlan_arg *)
VlanDirectives ==
  {t \in InputTokens :
     /\ HasPrefix(t, "vlan=")
     /\ mode = "file" \/ (parse_all /\ HasPrefix(LineHead(line), "vlan="))}

NameOf(t) == strsep(Drop(t, 5), {":"}).tok

CarriesVlan(name) ==
  \E f \in DOMAIN files : f[Len(f)] = ".network" /\ (<<"VLAN=">> \o name) \in LinesOf(f)

(* C13: after a run that ended well, in file mode and on the command line, *)
(* every vlan=<name>:<parent> directive of the input has a .network file   *)
(* with the line VLAN=<name> and a .netdev file with the line Name=<name>, *)
(* in the characters of the directive                                      *)
C13_VlanKeepsItsName ==
  (pc = "done" /\ exit_code = 0)
    => \A t \in VlanDirectives :
         /\ CarriesVlan(NameOf(t))
         /\ \E g \in DOMAIN files : DefinesVlan(g, NameOf(t))

(* ----------------------------------------------------------------------- *)
(* C14: the fields of rd.route=<destination>[:<gateway>][:<interface>]     *)
(* ----------------------------------------------------------------------- *)
(* the fields of a directive value: the pieces between the colons that are *)
(* not inside brackets                                                     *)
RECURSIVE FieldsFrom(_, _, _, _)
FieldsFrom(s, i, depth, cur) ==
  IF i > Len(s) THEN <<cur>>
  ELSE IF s[i] = ":" /\ depth = 0 THEN <<cur>> \o FieldsFrom(s, i + 1, 0, <<>>)
  ELSE FieldsFrom(s, i + 1,
                  IF s[i] = "[" THEN 1 ELSE IF s[i] = "]" THEN 0 ELSE depth,
                  Append(cur, s[i]))

Unbracket(f) ==
  IF Len(f) > 1 /\ f[1] = "[" /\ f[Len(f)] = "]" THEN SubSeq(f, 2, Len(f) - 1) ELSE f

RouteFields == FieldsFrom(Drop(IF mode = "file" THEN CurLine ELSE CurTok, 9), 1, 0, <<>>)

(* the next step dispatches a route of one to three fields, none empty *)
RouteStep ==
  /\ \/ CmdStep /\ parse_all /\ HasPrefix(CurTok, "rd.route=")
     \/ FileStep /\ Retained /\ HasPrefix(CurLine, "rd.route=")
  /\ Len(RouteFields) \in 1..3
  /\ \A k \in 1..Len(RouteFields) : RouteFields[k] # <<>>

FieldIs(val, k) ==
  IF k <= Len(RouteFields) THEN val = Unbracket(RouteFields[k]) ELSE isempty(val)

(* C14: a route of one, two or three fields is accepted, the run goes on,  *)
(* and the record is: destination the first field, gateway the second and  *)
(* interface the third where given, unset where not, brackets taken off    *)
(* destination and gateway                                                 *)
C14_RouteFields ==
  [][RouteStep
       => /\ ~CurParse.fault
          /\ CurParse.r = 0
          /\ FieldIs(CurParse.cfg.destination, 1)
          /\ FieldIs(CurParse.cfg.gateway, 2)
          /\ FieldIs(CurParse.cfg.interface, 3)
          /\ exit_code' = -1]_vars

(* ----------------------------------------------------------------------- *)
(* C15: netmask_to_cidr accepts the masks 1^k 0^(32-k) and returns k       *)
(* ----------------------------------------------------------------------- *)
(* the octets of the form 1^j 0^(8-j), with j *)
OctetOnes == (0 :> 0) @@ (128 :> 1) @@ (192 :> 2) @@ (224 :> 3) @@ (240 :> 4) @@
             (248 :> 5) @@ (252 :> 6) @@ (254 :> 7) @@ (255 :> 8)

(* q is 1^k 0^(32-k): octets of 255, then one octet 1^j 0^(8-j), then zeros *)
PrefixAt(q, j) ==
  /\ \A i \in 1..(j - 1) : q[i] = 255
  /\ q[j] \in DOMAIN OctetOnes
  /\ \A i \in (j + 1)..4 : q[i] = 0

Contiguous(q) == \E j \in 1..4 : PrefixAt(q, j)

PrefixLen(q) == LET j == CHOOSE j \in 1..4 : PrefixAt(q, j) IN 8 * (j - 1) + OctetOnes[q[j]]

(* the directive of the next step and the octets of its fourth field *)
CurDirective == IF mode = "file" THEN CurLine ELSE CurTok

CurMask ==
  LET f == FieldsFrom(Drop(CurDirective, 3), 1, 0, <<>>)
      p == IF Len(f) < 4 THEN <<>> ELSE Split(f[4], ".")
  IN  IF Len(p) = 4 /\ \A i \in 1..4 : p[i] # <<>> /\ AllDigits(p[i])
      THEN [i \in 1..4 |-> DecVal(p[i])]
      ELSE <<>>

(* the next step dispatches an ip= directive with a netmask of MaskQuads *)
MaskStep ==
  /\ (CmdStep /\ parse_all) \/ (FileStep /\ Retained)
  /\ CurMask \in MaskQuads
  /\ CurDirective = TokIpMask(CurMask)

(* C15: an ip= directive with a dotted-quad netmask is accepted if and     *)
(* only if the netmask is k one-bits followed by 32-k zero-bits, k in      *)
(* 0..32; the record then has the prefix length k, and any other mask ends *)
(* the run with EINVAL                                                     *)
C15_NetmaskToCidr ==
  [][MaskStep
       => IF Contiguous(CurMask)
          THEN /\ netmask_to_cidr(Dotted(CurMask)) = [r |-> 0, cidr |-> PrefixLen(CurMask)]
               /\ exit_code' = -1
               /\ Len(configs') = 1
               /\ configs'[1].netmask = PrefixLen(CurMask)
          ELSE /\ netmask_to_cidr(Dotted(CurMask)).r < 0
               /\ exit_code' = EINVAL
               /\ configs' = <<>>]_vars

(* a run that accepted 255.255.255.128 as the prefix length 25 *)
C15_Witness ==
  /\ pc = "done"
  /\ exit_code = 0
  /\ TokIpMask(<<255, 255, 255, 128>>) \in InputTokens
  /\ Len(configs) = 1
  /\ configs[1].netmask = 25

(* ----------------------------------------------------------------------- *)
(* C16: a record with an address has a prefix length of at least 1         *)
(* ----------------------------------------------------------------------- *)
IsAddressLine(l) == l # <<>> /\ l[1] = "Address="

PrefixZero(l) == Len(l) > 2 /\ l[Len(l) - 1] = "/" /\ l[Len(l)] = "0"

(* C16: in every record of the merge table client_ip set implies netmask   *)
(* at least 1, and no emitted file has an Address= line with the prefix    *)
(* length 0                                                                *)
C16_AddressHasNetmask ==
  /\ \A i \in 1..Len(configs) : ~isempty(configs[i].client_ip) => configs[i].netmask >= 1
  /\ \A f \in DOMAIN files : \A l \in LinesOf(f) : IsAddressLine(l) => ~PrefixZero(l)

(* ----------------------------------------------------------------------- *)
(* C17: a second run on the same output directory leaves what one run does *)
(* ----------------------------------------------------------------------- *)
(* C17: when the generator has run again with the same input on the output *)
(* directory of its first run and ended well, every file has the content   *)
(* the first run gave it and there is no other file                        *)
C17_RerunSameFiles ==
  (pc = "done" /\ exit_code = 0 /\ history # <<>>) => files = history[1]

(* ----------------------------------------------------------------------- *)
(* C18: a file that cannot be written ends the run with an error           *)
(* ----------------------------------------------------------------------- *)
(* the run had a file to write: a record, a VLAN, or an ifcfg= directive   *)
(* that got as far as write_network_file                                   *)
WriteAttempted ==
  \/ pc = "done" /\ InputDone /\ used_configs + nr_vlanids > 0
  \/ \E n \in 1..nr : \E t \in InputTokens :
       /\ HasPrefix(t, "ifcfg=")
       /\ parse_ifcfg_arg(n, StripQuotes(Drop(t, 6)), <<>>, <<>>).files # <<>>
       /\ IF mode = "file" THEN \E k \in 1..line_count : cfgfile[k] = t \o <<"\n">>
          ELSE cp > Len(line)

(* C18: a run whose output files cannot be opened does not end with the    *)
(* status 0 once it had a file to write                                    *)
C18_WriteErrorIsFatal ==
  (pc = "done" /\ ~outdir_ok /\ WriteAttempted) => exit_code # 0

(* ----------------------------------------------------------------------- *)
(* C19: the order of the strategies of efi_get_boot_source                 *)
(* ----------------------------------------------------------------------- *)
StubResult == efi_boot_systemd_stub(efivarfs, EmptyEfi)

StubFields(rec) == <<rec.url, rec.device, rec.image, rec.entry>>

(* C19: once the loader-stub strategy has run, the BootCurrent strategy is *)
(* run or about to run if and only if the loader-stub strategy gave        *)
(* not-found; any other error of it is the value returned, with BootCurrent *)
(* never run; and what it put into the record stays there for as long as   *)
(* the record lives                                                        *)
C19_StrategyOrder ==
  "stub" \in efi_tried
    => /\ (efi_pc = "current" \/ "current" \in efi_tried) <=> StubResult.r = 0 - ENOENT
       /\ Fatal(StubResult.r) => (efi_pc = "returned" /\ efi_r = StubResult.r)
       /\ (StubResult.r = 0 /\ (efi_pc = "returned" => efi_r = 0))
            => StubFields(efi) = StubFields(StubResult.res)

(* the loader-stub strategy found nothing, BootCurrent gave the record     *)
C19_Witness ==
  /\ efi_pc = "returned"
  /\ efi_r = 0
  /\ efi_tried = {"stub", "current", "partition"}
  /\ StubResult.r = 0 - ENOENT
  /\ ~isempty(efi.url)

(* ----------------------------------------------------------------------- *)
(* C20: at most one of url, device, image in a returned record             *)
(* ----------------------------------------------------------------------- *)
SetOf(rec) == {f \in {"url", "device", "image"} : ~isempty(rec[f])}

(* C20: a record returned by efi_get_boot_source has at most one of the    *)
(* fields url, device, image set                                           *)
C20_OneSource ==
  (efi_pc = "returned" /\ efi_r = 0) => Cardinality(SetOf(efi)) <= 1

(* ----------------------------------------------------------------------- *)
(* C21: what utf16_to_utf8 returns                                         *)
(* ----------------------------------------------------------------------- *)
UrlPayload == efivarfs.vars[<<"LoaderDeviceURL">>].bytes

(* the little-endian code units of a payload, and those before the first   *)
(* that is 0                                                               *)
Units(d) == [i \in 1..(Len(d) \div 2) |-> d[2 * i - 1] + 256 * d[2 * i]]

FirstNul(u) ==
  IF \E i \in 1..Len(u) : u[i] = 0
  THEN CHOOSE i \in 1..Len(u) : u[i] = 0 /\ \A j \in 1..(i - 1) : u[j] # 0
  ELSE Len(u) + 1

TextUnits(d) == SubSeq(Units(d), 1, FirstNul(Units(d)) - 1)

Slashed(u) == [i \in 1..Len(u) |-> IF u[i] = 92 THEN "/" ELSE AsciiChar[u[i]]]

Decoded(d) ==
  IF Len(d) % 2 # 0 THEN [r |-> 0 - EINVAL, str |-> NULL]
  ELSE IF \E i \in 1..Len(TextUnits(d)) : TextUnits(d)[i] >= 128
  THEN [r |-> 0 - ERANGE, str |-> NULL]
  ELSE [r |-> 0, str |-> Slashed(TextUnits(d))]

CurrentPath == PathOf(efivarfs.vars[<<"Boot", "0", "0", "0", "1">>].bytes)

(* C22: once the BootCurrent strategy has parsed the device path of        *)
(* Boot0001, the index behind the last byte parse_device_path read is at   *)
(* most limit, the length of the path                                      *)
C22_NoReadBehindLimit ==
  "current" \in efi_tried
    => \A behind \in Behind :
         parse_device_path(CurrentPath, behind, EmptyEfi).top <= Len(CurrentPath)

(* ----------------------------------------------------------------------- *)
(* C23: nothing behind the first node of type 0x7f contributes             *)
(* ----------------------------------------------------------------------- *)
(* the offset behind the first node of type 0x7f of a path whose nodes up  *)
(* to it have a whole header and a length of 4 or more within the path;    *)
(* the length of the path if there is none                                 *)
RECURSIVE EndOffset(_, _)
EndOffset(data, offset) ==
  IF offset + 4 > Len(data) THEN Len(data)
  ELSE LET length == data[offset + 3] + 256 * data[offset + 4]
       IN  IF length < 4 \/ offset + length > Len(data) THEN Len(data)
           ELSE IF data[offset + 1] = DT_END THEN offset + length
           ELSE EndOffset(data, offset + length)

UpToEnd(data) == SubSeq(data, 1, EndOffset(data, 0))

SourceFields(rec) == <<rec.url, rec.device, rec.image, rec.is_pxe_boot>>

(* C23: when the BootCurrent strategy has found a boot source in the       *)
(* device path of Boot0001, its url, device, image and PXE flag are those  *)
(* found in the path up to and with its first node of type 0x7f (for some  *)
(* content of the memory behind the path, should that have been read)      *)
C23_StopsAtEndNode ==
  (efi_tried = {"stub", "current"} /\ efi_pc = "partition")
    => \E behind \in Behind :
         LET p == parse_device_path(UpToEnd(CurrentPath), behind, EmptyEfi)
         IN  p.r = 0 /\ SourceFields(efi) = SourceFields(p.res)

(* ----------------------------------------------------------------------- *)
(* C24: the name of the boot variable read                                 *)
(* ----------------------------------------------------------------------- *)
IndexOf(name) ==
  LET d == efivarfs.vars[<<name>>].bytes IN BootIndexUnsigned(d[1], d[2])

(* C24: with the variables Boot#### of the values b0 + 256*b1 of            *)
(* BootCurrent and of the first entry of BootOrder in place as disk        *)
(* entries, the BootCurrent strategy and the default boot partition read   *)
(* those variables: the resolver returns the disk of the entry             *)
C24_BootVariableName ==
  /\ "current" \in efi_tried
       => /\ BootName(efivarfs.vars[<<"BootCurrent">>].bytes) = <<"Boot">> \o Hex4(IndexOf("BootCurrent"))
          /\ efi_pc = "partition" \/ (efi_pc = "returned" /\ efi_r = 0)
  /\ "partition" \in efi_tried
       => /\ BootName(efivarfs.vars[<<"BootOrder">>].bytes) = <<"Boot">> \o Hex4(IndexOf("BootOrder"))
          /\ efi_r = 0

(* ----------------------------------------------------------------------- *)
(* C25: the default boot partition is optional                             *)
(* ----------------------------------------------------------------------- *)
(* C25: when the loader-stub strategy or the BootCurrent strategy has      *)
(* found a boot source, so that the default boot partition was looked for, *)
(* efi_get_boot_source returns 0 and the record with that source           *)
C25_PartitionOptional ==
  (efi_pc = "returned" /\ "partition" \in efi_tried)
    => /\ efi_r = 0
       /\ SetOf(efi) # {} \/ efi.is_pxe_boot

(* ----------------------------------------------------------------------- *)
(* C26: a directive reported as a syntax error is not merged               *)
(* ----------------------------------------------------------------------- *)
(* the next step hands a token or line to a sub-parser, which reports a    *)
(* syntax error through return_syntax_error                                *)
ReportedStep ==
  /\ \/ CmdStep /\ parse_all /\ ~HasPrefix(CurTok, "ifcfg=")
     \/ FileStep /\ Retained /\ ~HasPrefix(CurLine, "ifcfg=")
  /\ ~CurParse.fault
  /\ CurParse.reported

(* C26: in a step whose sub-parser reports a syntax error the value        *)
(* returned is negative and the record table stays as it was               *)
C26_SyntaxErrorNotMerged ==
  [][ReportedStep => (CurParse.r < 0 /\ configs' = configs)]_vars

(* ----------------------------------------------------------------------- *)
(* C27: one record for each interface selector                             *)
(* ----------------------------------------------------------------------- *)
(* C27: no two records of the merge table have the same interface, two     *)
(* records without interface counting as the same                          *)
C27_OneRecordPerSelector ==
  \A i, j \in 1..Len(configs) : configs[i].interface = configs[j].interface => i = j

(* ----------------------------------------------------------------------- *)
(* C28: the capacity limit is one on appending                             *)
(* ----------------------------------------------------------------------- *)
(* the record of the next step merges into stored records                  *)
MergesIntoStored(cfg, cfgs) ==
  \/ \E i \in 1..Len(cfgs) : SameInterface(cfgs[i], cfg)
  \/ cfg.interface = NULL /\ Named(cfgs) # {}

(* C28: with MAX_INTERFACES records stored, a step with a record that      *)
(* merges into stored records raises no error and leaves the table as the  *)
(* merge loop makes it                                                     *)
C28_FullTableStillMerges ==
  [][(MergeStep /\ Len(configs) = MAX_INTERFACES /\ MergesIntoStored(CurParse.cfg, configs))
       => /\ merge_configs(CurParse.cfg, configs).r = 0
          /\ configs' = MergeLoop(CurParse.cfg, configs, 1, FALSE).configs]_vars

(* ----------------------------------------------------------------------- *)
(* C29: ifcfg= leaves the record table alone                               *)
(* ----------------------------------------------------------------------- *)
IfcfgStep ==
  \/ CmdStep /\ HasPrefix(CurTok, "ifcfg=")
  \/ FileStep /\ Retained /\ HasPrefix(CurLine, "ifcfg=")

(* C29: a step on an ifcfg= token or line leaves the record table as it    *)
(* was                                                                     *)
C29_IfcfgKeepsRecords ==
  [][IfcfgStep => configs' = configs]_vars

(* ----------------------------------------------------------------------- *)
(* C30: /proc/cmdline and the arguments give the same tokens               *)
(* ----------------------------------------------------------------------- *)
(* the text of the line of /proc/cmdline as arguments joined by spaces     *)
(* hold it: without the line terminator                                    *)
ArgText ==
  IF line # <<>> /\ line[Len(line)] = "\n" THEN SubSeq(line, 1, Len(line) - 1) ELSE line

(* C30: the token a step dispatches from the line of /proc/cmdline is the  *)
(* token at the same place of the same text given as arguments             *)
C30_SameTokensBothModes ==
  [][(CmdStep /\ mode = "proc" /\ cp <= Len(ArgText))
       => CurTok = TokenAt(ArgText, cp, NextSplit(ArgText, cp, in_quote).i)]_vars
====
